---- MODULE Spec2Model ----
(***************************************************************************)
(* Model of the NoMoScroll backend: the bounded analysis cache             *)
(* (CacheService), the per-client rate limiter (rateLimiter), the request  *)
(* validator (validateRequest), the Gemini client and response parser      *)
(* (GeminiService) and the POST /api/analyze route that composes them.     *)
(***************************************************************************)
EXTENDS Integers, Sequences, FiniteSets, TLC

VARIABLES
    cache,      \* CacheService.cache: the Map as a sequence in insertion order
    now,        \* the value Date.now() returns
    opCount,    \* number of CacheService calls made so far
    lastOp,     \* the last CacheService call: what it returned and deleted
    store,      \* rate-limit.middleware store: client -> [count, resetTime]
    lastResp,   \* what the last rateLimiter call did with its request
    build,      \* which GeminiService class the server runs with
    rawText,    \* the text the model has answered with
    analysis,   \* what analyzeContent has returned or thrown for rawText
    reqs        \* the requests to the analysis endpoint: request -> its state

cacheVars == <<cache, opCount, lastOp>>
rateVars == <<store, lastResp>>
parseVars == <<rawText, analysis>>
pipeVars == <<reqs>>
vars == <<cache, now, opCount, lastOp, store, lastResp, build, rawText, analysis, reqs>>

(***************************************************************************)
(* Program constants                                                       *)
(***************************************************************************)
TTL == 2 * 60 * 60 * 1000
MAX_SIZE == 1000
EVICT_COUNT == 100
WINDOW_MS == 15 * 60 * 1000
MAX_REQUESTS == 100

(***************************************************************************)
(* Bounds of the exploration                                               *)
(***************************************************************************)
MaxOps == 3
MaxOver == 2
PrefillHits == 12

Null == "null"
Results == {"resA", "resB"}
CacheKeys == {1, MAX_SIZE, MAX_SIZE + 1}
CacheClock == {0, 1, TTL, TTL + 1, TTL + 2}
Clients == {"ipA", "ipB"}
RateClock == {0, 1, WINDOW_MS - 1, WINDOW_MS, WINDOW_MS + 1}

(***************************************************************************)
(* CacheService.  The Map is the pair of its keys in insertion order       *)
(* (order) and the entry stored under each key (entry).                    *)
(***************************************************************************)
EmptyMap == [order |-> <<>>, entry |-> <<>>]

Has(c, key) == key \in DOMAIN c.entry

Size(c) == Len(c.order)

\* Variant of Expired that already expires an entry at age TTL.
ExpiredAtTtl(e, t) == t - e.timestamp >= TTL

\* now - entry.timestamp > this.TTL
Expired(e, t) == t - e.timestamp > TTL

\* Map.delete of every key of ks: the other keys keep their order.
MapDelete(c, ks) ==
    [order |-> SelectSeq(c.order, LAMBDA k : k \notin ks),
     entry |-> [k \in (DOMAIN c.entry) \ ks |-> c.entry[k]]]

\* Variant of MapSet that keeps the hitCount of an entry it replaces.
MapSetKeepsHits(c, key, e) ==
    IF Has(c, key)
    THEN [c EXCEPT !.entry[key] = [e EXCEPT !.hitCount = c.entry[key].hitCount]]
    ELSE [order |-> Append(c.order, key),
          entry |-> [k \in (DOMAIN c.entry) \cup {key} |->
                        IF k = key THEN e ELSE c.entry[k]]]

\* Map.set: an existing key keeps its position, a new key goes last.
MapSet(c, key, e) ==
    IF Has(c, key)
    THEN [c EXCEPT !.entry[key] = e]
    ELSE [order |-> Append(c.order, key),
          entry |-> [k \in (DOMAIN c.entry) \cup {key} |->
                        IF k = key THEN e ELSE c.entry[k]]]

SetMin(S) == CHOOSE m \in S : \A n \in S : m <= n

\* Array.sort((a, b) => a[1].hitCount - b[1].hitCount) over the entries whose
\* hitCount is in hs: ascending hitCount and, the sort being stable, the
\* Map's order among equal hitCounts.  The result lists the keys.
RECURSIVE SortByHitCount(_, _)
SortByHitCount(c, hs) ==
    IF hs = {} THEN <<>>
    ELSE LET h == SetMin(hs)
         IN  SelectSeq(c.order, LAMBDA k : c.entry[k].hitCount = h)
               \o SortByHitCount(c, hs \ {h})

\* Variant of LeastUsedKeys that slices the unsorted entries.
LeastUsedKeysUnsorted(c) ==
    {c.order[i] : i \in 1..(IF Size(c) < EVICT_COUNT THEN Size(c) ELSE EVICT_COUNT)}

\* sort(...).slice(0, 100): the keys of the first 100 entries of the sorted array.
LeastUsedKeys(c) ==
    LET sorted == SortByHitCount(c, {c.entry[k].hitCount : k \in DOMAIN c.entry})
    IN  {sorted[i] : i \in 1..(IF Len(sorted) < EVICT_COUNT THEN Len(sorted)
                                                          ELSE EVICT_COUNT)}

ExpiredKeys(c, t) == {k \in DOMAIN c.entry : Expired(c.entry[k], t)}

\* Variant of cleanOldEntries without the pass over the expired entries.
cleanLeastUsedOnly(c, t) ==
    IF Size(c) >= MAX_SIZE THEN MapDelete(c, LeastUsedKeys(c)) ELSE c

\* cleanOldEntries at clock t: first every expired entry is deleted, then,
\* if the Map is still full, the 100 least used ones.
cleanOldEntries(c, t) ==
    LET afterTtl == MapDelete(c, ExpiredKeys(c, t))
    IN  IF Size(afterTtl) >= MAX_SIZE
        THEN MapDelete(afterTtl, LeastUsedKeys(afterTtl))
        ELSE afterTtl

\* Variant of BeforeInsert that cleans only above MAX_SIZE.
BeforeInsertAbove(c, t) == IF Size(c) > MAX_SIZE THEN cleanOldEntries(c, t) ELSE c

\* The Map when set reaches this.cache.set(...).
BeforeInsert(c, t) == IF Size(c) >= MAX_SIZE THEN cleanOldEntries(c, t) ELSE c

NewEntry(result, t) == [result |-> result, timestamp |-> t, hitCount |-> 0]

CacheAfterSet(c, key, result, t) ==
    MapSet(BeforeInsert(c, t), key, NewEntry(result, t))

\* What get returns.
GetResult(c, key, t) ==
    IF ~Has(c, key) THEN Null
    ELSE IF Expired(c.entry[key], t) THEN Null
    ELSE c.entry[key].result

\* Variant of CacheAfterGet whose read of a live entry is not counted.
CacheAfterGetUncounted(c, key, t) ==
    IF ~Has(c, key) THEN c
    ELSE IF Expired(c.entry[key], t) THEN MapDelete(c, {key})
    ELSE c

\* Variant of CacheAfterGet whose read of a live entry renews its timestamp.
CacheAfterGetRefreshing(c, key, t) ==
    IF ~Has(c, key) THEN c
    ELSE IF Expired(c.entry[key], t) THEN MapDelete(c, {key})
    ELSE [c EXCEPT !.entry[key].hitCount = @ + 1, !.entry[key].timestamp = t]

\* The cache after get(key) at clock t (lines 29-44).
CacheAfterGet(c, key, t) ==
    IF ~Has(c, key) THEN c
    ELSE IF Expired(c.entry[key], t) THEN MapDelete(c, {key})
    ELSE [c EXCEPT !.entry[key].hitCount = @ + 1]

\* A cache that n earlier set calls at clock 0 (keys 1..n) and later get
\* calls have produced: entry i has been read i % PrefillHits times.
Prefill(n) ==
    [order |-> [i \in 1..n |-> i],
     entry |-> [i \in 1..n |-> [result |-> "resA", timestamp |-> 0,
                                hitCount |-> i % PrefillHits]]]

InitCaches == {EmptyMap, Prefill(MAX_SIZE - 1)}

NoOp == [op |-> "none", key |-> 0, ret |-> Null, removed |-> {}]

Pending == [kind |-> "pending", result |-> [f \in {"user_pattern", "addiction_risk",
    "educational_value", "recommended_action", "bonus_scrolls", "reasoning",
    "break_suggestion", "content_type", "confidence_score"} |->
        [ty |-> "undef", n |-> 0, s |-> ""]]]

NoResp == [client |-> "none", status |-> 0, retryAfter |-> 0]

CacheInit ==
    /\ cache \in InitCaches
    /\ now = 0
    /\ opCount = 0
    /\ lastOp = NoOp
    /\ store = <<>>
    /\ lastResp = NoResp
    /\ build = "rest"
    /\ rawText = <<>>
    /\ analysis = Pending
    /\ reqs = <<>>

Set(key, result) ==
    /\ opCount < MaxOps
    /\ LET cleaned == BeforeInsert(cache, now)
       IN  /\ cache' = MapSet(cleaned, key, NewEntry(result, now))
           /\ lastOp' = [op |-> "set", key |-> key, ret |-> Null,
                         removed |-> (DOMAIN cache.entry) \ (DOMAIN cleaned.entry)]
    /\ opCount' = opCount + 1
    /\ UNCHANGED <<now, rateVars, build, parseVars, pipeVars>>

Get(key) ==
    /\ opCount < MaxOps
    /\ cache' = CacheAfterGet(cache, key, now)
    /\ lastOp' = [op |-> "get", key |-> key, ret |-> GetResult(cache, key, now),
                  removed |-> (DOMAIN cache.entry)
                                 \ (DOMAIN CacheAfterGet(cache, key, now).entry)]
    /\ opCount' = opCount + 1
    /\ UNCHANGED <<now, rateVars, build, parseVars, pipeVars>>

CacheTick ==
    /\ \E t \in CacheClock : t > now /\ now' = t
    /\ UNCHANGED <<cacheVars, rateVars, build, parseVars, pipeVars>>

CacheNext ==
    \/ \E k \in CacheKeys, r \in Results : Set(k, r)
    \/ \E k \in CacheKeys : Get(k)
    \/ CacheTick

SpecCache == CacheInit /\ [][CacheNext]_vars

(***************************************************************************)
(* rateLimiter                                                             *)
(***************************************************************************)
\* Variant of Purged that keeps a record until its resetTime has passed.
PurgedLate(st, t) == [c \in {d \in DOMAIN st : ~(st[d].resetTime < t)} |-> st[c]]

\* The store after the clean-up loop at clock t.
Purged(st, t) == [c \in {d \in DOMAIN st : ~(st[d].resetTime <= t)} |-> st[c]]

\* Variant of Counted whose every request starts the window anew.
CountedSliding(st, client, t) ==
    LET p == Purged(st, t)
    IN  IF client \notin DOMAIN p
        THEN [c \in (DOMAIN p) \cup {client} |->
                 IF c = client THEN [count |-> 1, resetTime |-> t + WINDOW_MS]
                 ELSE p[c]]
        ELSE [p EXCEPT ![client].count = @ + 1, ![client].resetTime = t + WINDOW_MS]

\* The store after the request of client has been counted at clock t.
Counted(st, client, t) ==
    LET p == Purged(st, t)
    IN  IF client \notin DOMAIN p
        THEN [c \in (DOMAIN p) \cup {client} |->
                 IF c = client THEN [count |-> 1, resetTime |-> t + WINDOW_MS]
                 ELSE p[c]]
        ELSE [p EXCEPT ![client].count = @ + 1]

\* Variant of OverLimit that already refuses the request number MAX_REQUESTS.
OverLimitAt(count) == count >= MAX_REQUESTS

\* store[clientIp].count > MAX_REQUESTS
OverLimit(count) == count > MAX_REQUESTS

\* Math.ceil(ms / 1000) of an integer number of milliseconds.
CeilSeconds(ms) ==
    IF ms >= 0 THEN (ms + 999) \div 1000 ELSE -((-ms) \div 1000)

\* status 429 with the body's retryAfter, or status 0 when next() is called.
LimiterResponse(st, client, t) ==
    LET rec == Counted(st, client, t)[client]
    IN  IF OverLimit(rec.count)
        THEN [client |-> client, status |-> 429,
              retryAfter |-> CeilSeconds(rec.resetTime - t)]
        ELSE [client |-> client, status |-> 0, retryAfter |-> 0]

RateInit ==
    /\ cache = EmptyMap
    /\ now = 0
    /\ opCount = 0
    /\ lastOp = NoOp
    /\ store = <<>>
    /\ lastResp = NoResp
    /\ build = "rest"
    /\ rawText = <<>>
    /\ analysis = Pending
    /\ reqs = [expired |-> {}]

\* reqs remembers, for the last call, the clients whose record the call
\* found expired (resetTime <= now) in the store.
RateLimit(client) ==
    /\ client \in DOMAIN Purged(store, now)
          => store[client].count < MAX_REQUESTS + MaxOver
    /\ store' = Counted(store, client, now)
    /\ lastResp' = LimiterResponse(store, client, now)
    /\ reqs' = [expired |-> {d \in DOMAIN store : store[d].resetTime <= now}]
    /\ UNCHANGED <<now, cacheVars, build, parseVars>>

RateTick ==
    /\ \E t \in RateClock : t > now /\ now' = t
    /\ UNCHANGED <<cacheVars, rateVars, build, parseVars, pipeVars>>

RateNext ==
    \/ \E c \in Clients : RateLimit(c)
    \/ RateTick

SpecRate == RateInit /\ [][RateNext]_vars

(***************************************************************************)
(* One client around the end of its window.  reqs counts the requests of   *)
(* the client that were passed on and that were refused from the clock     *)
(* BurstFrom on, one millisecond before the end of the first window.       *)
(***************************************************************************)
BurstFrom == WINDOW_MS - 1

BurstInit ==
    /\ cache = EmptyMap
    /\ now = 0
    /\ opCount = 0
    /\ lastOp = NoOp
    /\ store = <<>>
    /\ lastResp = NoResp
    /\ build = "rest"
    /\ rawText = <<>>
    /\ analysis = Pending
    /\ reqs = [permitted |-> 0, denied |-> 0]

BurstLimit(client) ==
    /\ client \in DOMAIN Purged(store, now)
          => store[client].count < MAX_REQUESTS + MaxOver
    /\ store' = Counted(store, client, now)
    /\ lastResp' = LimiterResponse(store, client, now)
    /\ reqs' = IF now < BurstFrom THEN reqs
               ELSE IF LimiterResponse(store, client, now).status = 429
               THEN [reqs EXCEPT !.denied = @ + 1]
               ELSE [reqs EXCEPT !.permitted = @ + 1]
    /\ UNCHANGED <<now, cacheVars, build, parseVars>>

BurstTick ==
    /\ \E t \in RateClock : t > now /\ now' = t
    /\ UNCHANGED <<cacheVars, rateVars, build, parseVars, pipeVars>>

BurstNext ==
    \/ BurstLimit("ipA")
    \/ BurstTick

SpecBurst == BurstInit /\ [][BurstNext]_vars

(***************************************************************************)
(* JavaScript values as the Gemini parser sees them.  A number is kept in  *)
(* tenths (n = 10 * value), so that 0.8 and 0.1 are integers.              *)
(***************************************************************************)
Num(n) == [ty |-> "num", n |-> n, s |-> ""]
Str(s) == [ty |-> "str", n |-> 0, s |-> s]
JNull == [ty |-> "null", n |-> 0, s |-> ""]
Undef == [ty |-> "undef", n |-> 0, s |-> ""]
NaN == [ty |-> "nan", n |-> 0, s |-> ""]
ObjVal == [ty |-> "obj", n |-> 0, s |-> ""]

\* The truthiness the || operator tests.
Truthy(v) ==
    \/ v.ty = "num" /\ v.n # 0
    \/ v.ty = "str" /\ v.s # ""
    \/ v.ty = "obj"

\* a || b
OrElse(a, b) == IF Truthy(a) THEN a ELSE b

\* The strings of the inputs that convert to a number, with their value.
NumericStrings == {"7"}

\* ToNumber, as Math.min and Math.max apply it to an argument.
ToNumber(v) ==
    CASE v.ty = "num" -> v
      [] v.ty = "null" -> Num(0)
      [] v.ty = "str" /\ v.s = "" -> Num(0)
      [] v.ty = "str" /\ v.s = "7" -> Num(70)
      [] OTHER -> NaN

MathMin(a, b) ==
    LET x == ToNumber(a)
        y == ToNumber(b)
    IN  IF x.ty = "nan" \/ y.ty = "nan" THEN NaN
        ELSE IF x.n <= y.n THEN x ELSE y

MathMax(a, b) ==
    LET x == ToNumber(a)
        y == ToNumber(b)
    IN  IF x.ty = "nan" \/ y.ty = "nan" THEN NaN
        ELSE IF x.n >= y.n THEN x ELSE y

\* Variant of Clamp that bounds the value from below only.
ClampBelow(lo, hi, v) == MathMax(Num(lo), v)

\* Math.max(lo, Math.min(hi, v))
Clamp(lo, hi, v) == MathMax(Num(lo), MathMin(Num(hi), v))

UserPatterns == {"Deep Focus/Learning", "Active Socializing", "Intentional Leisure",
             "Casual Browsing/Catch-up", "Passive Consumption/Doomscrolling",
             "Anxiety-Driven Information Seeking"}
RecommendedActions == {"session_extension", "gentle_reward", "maintain_limit",
                      "show_warning", "immediate_break"}
ContentTypes == {"productive", "neutral", "entertainment", "doomscroll", "unknown"}

FieldNames == {"user_pattern", "addiction_risk", "educational_value",
               "recommended_action", "bonus_scrolls", "reasoning",
               "break_suggestion", "content_type", "confidence_score"}

\* An object without any of the fields the parser reads.
EmptyObject == [f \in FieldNames |-> Undef]

(***************************************************************************)
(* Model text.  A text is a sequence of tokens: the braces, the comma,     *)
(* white space (a space or a newline), a prose word, the ``` fence, the    *)
(* word json, a JSON literal that is no object, a member "key": value with *)
(* a scalar value whose text holds no brace, and a member key "key": that  *)
(* an object follows.  A member whose string value holds braces is spelt   *)
(* in pieces: the token MemberOpen ("key": " and the string up to its      *)
(* first brace), the braces, words and spaces of the string as LB, RB,     *)
(* WORD and SP, and QUOTE (the end of the string and its closing quote),   *)
(* so that the patterns, which read characters, meet the braces of a       *)
(* string as they meet any other brace.                                    *)
(***************************************************************************)
Tok(t) == [t |-> t, k |-> "", v |-> Undef]
LB == Tok("{")
RB == Tok("}")
COMMA == Tok(",")
NL == Tok("nl")
SP == Tok("sp")
WORD == Tok("w")
FENCE == Tok("fence")
JSONWORD == Tok("json")
LIT == Tok("lit")
Member(k, v) == [t |-> "f", k |-> k, v |-> v]
\* v is the string that JSON.parse decodes when the string is whole
MemberOpen(k, v) == [t |-> "fs", k |-> k, v |-> v]
QUOTE == Tok("q")
StringMember(k, v, inner) == <<MemberOpen(k, v)>> \o inner \o <<QUOTE>>
KeyOf(k) == [t |-> "key", k |-> k, v |-> Undef]

\* \s
IsWs(tok) == tok.t \in {"nl", "sp"}

AllWs(s, i, j) == \A m \in i..j : IsWs(s[m])

Positions(s, tok) == {i \in 1..Len(s) : s[i] = tok}

\* String.trim
RECURSIVE TrimLeft(_)
TrimLeft(s) == IF s # <<>> /\ IsWs(Head(s)) THEN TrimLeft(Tail(s)) ELSE s

RECURSIVE TrimRight(_)
TrimRight(s) ==
    IF s # <<>> /\ IsWs(s[Len(s)]) THEN TrimRight(SubSeq(s, 1, Len(s) - 1)) ELSE s

Trim(s) == TrimLeft(TrimRight(s))

\* replace(/\s*```$/, ''): a fence that ends the text goes, with the white
\* space before it.
DropEndFence(s) ==
    IF s # <<>> /\ s[Len(s)] = FENCE
    THEN TrimRight(SubSeq(s, 1, Len(s) - 1))
    ELSE s

\* Lines 229-234 of parseResponse: the markdown fences of a text that
\* starts with one.
StripFences(s) ==
    IF Len(s) >= 2 /\ s[1] = FENCE /\ s[2] = JSONWORD
    THEN DropEndFence(TrimLeft(SubSeq(s, 3, Len(s))))
    ELSE IF Len(s) >= 1 /\ s[1] = FENCE
    THEN DropEndFence(TrimLeft(SubSeq(s, 2, Len(s))))
    ELSE s

NoMatch == <<>>

\* The match of /\{[\s\S]*?\}(?=\s*$)/ or /\{[\s\S]*?\}(?=\s*\n)/: from the
\* first opening brace to the first closing brace after it that the
\* lookahead accepts (ends is the set of positions it accepts).
LazyMatch(s, ends) ==
    LET opens == {i \in Positions(s, LB) : \E j \in ends : j > i}
    IN  IF opens = {} THEN NoMatch
        ELSE LET i == SetMin(opens)
             IN  SubSeq(s, i, SetMin({j \in ends : j > i}))

\* (?=\s*$): only white space follows up to the end of the text.
EndsAtEnd(s) == {j \in Positions(s, RB) : AllWs(s, j + 1, Len(s))}

\* (?=\s*\n): white space and then a newline follow.
EndsBeforeNewline(s) ==
    {j \in Positions(s, RB) :
        \E m \in (j + 1)..Len(s) : s[m] = NL /\ AllWs(s, j + 1, m - 1)}

\* /\{[^{}]*(?:\{[^{}]*\}[^{}]*)*\}/ tried at the opening brace i: the
\* position of the closing brace of the match, or 0.  pos is the position
\* being read and inner tells whether it is inside a nested pair of braces.
RECURSIVE NestedEnd(_, _, _)
NestedEnd(s, pos, inner) ==
    IF pos > Len(s) THEN 0
    ELSE IF s[pos] = LB THEN (IF inner THEN 0 ELSE NestedEnd(s, pos + 1, TRUE))
    ELSE IF s[pos] = RB THEN (IF inner THEN NestedEnd(s, pos + 1, FALSE) ELSE pos)
    ELSE NestedEnd(s, pos + 1, inner)

NestedMatch(s) ==
    LET opens == {i \in Positions(s, LB) : NestedEnd(s, i + 1, FALSE) # 0}
    IN  IF opens = {} THEN NoMatch
        ELSE LET i == SetMin(opens)
             IN  SubSeq(s, i, NestedEnd(s, i + 1, FALSE))

SetMax(S) == CHOOSE m \in S : \A n \in S : m >= n

\* /\{[\s\S]*\}/: from the first opening brace to the last closing brace.
GreedyMatch(s) ==
    LET opens == {i \in Positions(s, LB) : \E j \in Positions(s, RB) : j > i}
    IN  IF opens = {} THEN NoMatch
        ELSE SubSeq(s, SetMin(opens), SetMax(Positions(s, RB)))

\* jsonPatterns, in their order.
PatternMatches(s) ==
    <<LazyMatch(s, EndsAtEnd(s)), LazyMatch(s, EndsBeforeNewline(s)),
      NestedMatch(s), GreedyMatch(s)>>

\* The for loop over jsonPatterns: the match of the first pattern that
\* matches, the text itself when none does.
FirstMatch(s) ==
    LET ms == PatternMatches(s)
        hits == {p \in 1..Len(ms) : ms[p] # NoMatch}
    IN  IF hits = {} THEN s ELSE ms[SetMin(hits)]

\* substring(0, lastIndexOf('}') + 1) when there is a closing brace.
CutAfterLastBrace(s) ==
    IF Positions(s, RB) = {} THEN s ELSE SubSeq(s, 1, SetMax(Positions(s, RB)))

\* The text parseResponse hands to JSON.parse.
CleanedText(text) == CutAfterLastBrace(FirstMatch(StripFences(Trim(text))))

(***************************************************************************)
(* JSON.parse on a token text                                              *)
(***************************************************************************)
ParseFail == [ok |-> FALSE, next |-> 0, obj |-> EmptyObject]

PutField(obj, k, v) == IF k \in FieldNames THEN [obj EXCEPT ![k] = v] ELSE obj

\* An object that starts at u[i]; next is the position after its closing brace.
RECURSIVE ParseObject(_, _)
RECURSIVE ParseMembers(_, _, _)
ParseObject(u, i) ==
    IF i + 1 > Len(u) \/ u[i] # LB THEN ParseFail
    ELSE IF u[i + 1] = RB THEN [ok |-> TRUE, next |-> i + 2, obj |-> EmptyObject]
    ELSE ParseMembers(u, i + 1, EmptyObject)

\* The members of an object from u[i] on, up to its closing brace.
ParseMembers(u, i, obj) ==
    IF i > Len(u) THEN ParseFail
    ELSE LET one ==
               IF u[i].t = "f"
               THEN [ok |-> TRUE, next |-> i + 1,
                     obj |-> PutField(obj, u[i].k, u[i].v)]
               ELSE IF u[i].t = "key"
               THEN LET inner == ParseObject(u, i + 1)
                    IN  [ok |-> inner.ok, next |-> inner.next,
                         obj |-> PutField(obj, u[i].k, ObjVal)]
               ELSE ParseFail
         IN  IF ~one.ok \/ one.next > Len(u) THEN ParseFail
             ELSE IF u[one.next] = RB
             THEN [ok |-> TRUE, next |-> one.next + 1, obj |-> one.obj]
             ELSE IF u[one.next] = COMMA
             THEN ParseMembers(u, one.next + 1, one.obj)
             ELSE ParseFail

\* The lexer of JSON.parse on a string spelt in pieces: from MemberOpen to
\* the next QUOTE is one member, whatever braces lie in between; a string
\* that the text does not close, or that holds a newline, is a SyntaxError
\* (the token "bad").
RECURSIVE JoinStrings(_)
JoinStrings(s) ==
    IF s = <<>> THEN <<>>
    ELSE IF Head(s).t # "fs" THEN <<Head(s)>> \o JoinStrings(Tail(s))
    ELSE LET closes == {j \in 2..Len(s) : s[j] = QUOTE}
         IN  IF closes = {} THEN <<Tok("bad")>>
             ELSE LET j == SetMin(closes)
                  IN  IF \E m \in 2..(j - 1) : s[m] = NL
                      THEN <<Tok("bad")>>
                      ELSE <<Member(Head(s).k, Head(s).v)>>
                              \o JoinStrings(SubSeq(s, j + 1, Len(s)))

\* JSON.parse: kind is "obj" for an object, "lit" for another JSON value and
\* "error" when JSON.parse throws a SyntaxError.
JsonParse(s) ==
    LET u == SelectSeq(JoinStrings(s), LAMBDA tok : ~IsWs(tok))
    IN  IF u = <<LIT>> THEN [kind |-> "lit", obj |-> EmptyObject]
        ELSE LET r == ParseObject(u, 1)
             IN  IF r.ok /\ r.next = Len(u) + 1
                 THEN [kind |-> "obj", obj |-> r.obj]
                 ELSE [kind |-> "error", obj |-> EmptyObject]

(***************************************************************************)
(* GeminiService: parseResponse, normalizeResponse, getFallbackResponse    *)
(* and analyzeContent.  The repository holds two GeminiService classes:    *)
(* build "rest" calls the REST endpoint with fetch and repairs the text    *)
(* (services/gemini.service.ts), build "sdk" calls the Google SDK and      *)
(* returns JSON.parse of the text as it is.                                *)
(***************************************************************************)
Builds == {"rest", "sdk"}

\* The object literal of lines 269-280, the same as normalizeResponse builds.
normalizeResponse(parsed) ==
    [user_pattern |-> OrElse(parsed.user_pattern, Str("Casual Browsing/Catch-up")),
     addiction_risk |-> Clamp(0, 100, OrElse(parsed.addiction_risk, Num(50))),
     educational_value |-> Clamp(0, 100, OrElse(parsed.educational_value, Num(0))),
     recommended_action |-> OrElse(parsed.recommended_action, Str("maintain_limit")),
     bonus_scrolls |-> Clamp(0, 200, OrElse(parsed.bonus_scrolls, Num(0))),
     reasoning |-> OrElse(parsed.reasoning, Str("Analysis completed")),
     break_suggestion |-> OrElse(parsed.break_suggestion, JNull),
     content_type |-> OrElse(parsed.content_type, Str("unknown")),
     confidence_score |-> Clamp(0, 10, OrElse(parsed.confidence_score, Num(8)))]

getFallbackResponse ==
    [user_pattern |-> Str("Casual Browsing/Catch-up"),
     addiction_risk |-> Num(50),
     educational_value |-> Num(50),
     recommended_action |-> Str("maintain_limit"),
     bonus_scrolls |-> Num(0),
     reasoning |-> Str("AI analysis unavailable, maintaining original scroll limit"),
     break_suggestion |-> Str("Take a 5-minute break to rest your eyes"),
     content_type |-> Str("unknown"),
     confidence_score |-> Num(0)]

Returned(result) == [kind |-> "ok", result |-> result]
Thrown == [kind |-> "throw", result |-> EmptyObject]

\* The try block of parseResponse (lines 225-280): the result it returns, or
\* Thrown when JSON.parse or the required-field test throws.
FirstAttempt(text) ==
    LET parsed == JsonParse(CleanedText(text))
    IN  IF parsed.kind = "obj"
           /\ Truthy(parsed.obj.user_pattern)
           /\ Truthy(parsed.obj.recommended_action)
        THEN Returned(normalizeResponse(parsed.obj))
        ELSE Thrown

\* A token that holds the characters "user_pattern", quotes included: a
\* member of that name, or a member whose value is that string.
NamesPattern(tok) ==
    \/ tok.t \in {"f", "fs", "key"} /\ tok.k = "user_pattern"
    \/ tok.t = "f" /\ tok.v = Str("user_pattern")

\* responseText.match(/\{[^{}]*"user_pattern"[^{}]*\}/): a pair of braces
\* with no brace character in between, those of a string included, and
\* "user_pattern" in between.
SimpleMatch(text) ==
    LET pairs == {i \in Positions(text, LB) :
                    \E j \in Positions(text, RB) :
                       /\ j > i
                       /\ \A m \in (i + 1)..(j - 1) : text[m] # LB /\ text[m] # RB
                       /\ \E m \in (i + 1)..(j - 1) : NamesPattern(text[m])}
    IN  IF pairs = {} THEN NoMatch
        ELSE LET i == SetMin(pairs)
             IN  SubSeq(text, i, SetMin({j \in Positions(text, RB) : j > i}))

\* The catch block of parseResponse (lines 281-302).
Recovery(text) ==
    LET m == SimpleMatch(text)
    IN  IF m # NoMatch /\ JsonParse(m).kind = "obj"
        THEN Returned(normalizeResponse(JsonParse(m).obj))
        ELSE Thrown

parseResponse(text) ==
    IF FirstAttempt(text).kind = "ok" THEN FirstAttempt(text) ELSE Recovery(text)

\* What the call of the model gives: a text, or a failure (network, auth,
\* quota, a status that is not OK, an envelope without candidates).
CallFailed == <<Tok("failed")>>

\* analyzeContent of build "rest" once the call of the model has settled.
AnalyzeRest(reply) ==
    IF reply = CallFailed THEN Returned(getFallbackResponse)
    ELSE IF parseResponse(reply).kind = "ok" THEN parseResponse(reply)
    ELSE Returned(getFallbackResponse)

\* analyzeContent of build "sdk" once the call of the model has settled.
AnalyzeSdk(reply) ==
    IF reply = CallFailed THEN Thrown
    ELSE IF JsonParse(reply).kind = "error" THEN Thrown
    ELSE Returned(JsonParse(reply).obj)

analyzeContent(b, reply) == IF b = "rest" THEN AnalyzeRest(reply) ELSE AnalyzeSdk(reply)

(***************************************************************************)
(* The model texts explored                                                *)
(***************************************************************************)
Absent == Tok("absent")

\* The members of an object, separated by sep.
RECURSIVE Joined(_, _)
Joined(ms, sep) ==
    IF ms = <<>> THEN <<>>
    ELSE IF Len(ms) = 1 THEN ms
    ELSE <<Head(ms)>> \o sep \o Joined(Tail(ms), sep)

\* An object on one line, and one with a member per line.
Compact(ms) == <<LB>> \o Joined(SelectSeq(ms, LAMBDA m : m # Absent), <<COMMA>>) \o <<RB>>
Pretty(ms) ==
    <<LB, NL, SP>> \o Joined(SelectSeq(ms, LAMBDA m : m # Absent), <<COMMA, NL, SP>>)
       \o <<NL, RB>>

OrAbsent(k, vals) == {Absent} \cup {Member(k, v) : v \in vals}

PatternChoices ==
    OrAbsent("user_pattern",
             {Str("Deep Focus/Learning"), Str("Casual Browsing/Catch-up"),
              Str("Nonsense"), Num(70)})
ActionChoices == OrAbsent("recommended_action", {Str("session_extension"), Str("nap")})
RiskChoices ==
    OrAbsent("addiction_risk", {Num(0), Num(1), Num(30), Num(150), Num(-20), Str("high"), Str("7")})
ValueChoices == OrAbsent("educational_value", {Num(0), Num(9), Num(110)})
BonusChoices == OrAbsent("bonus_scrolls", {Num(0), Num(180), Num(250), Num(-10)})
OtherChoices ==
    {<<>>,
     <<Member("reasoning", Str("ok"))>>,
     <<Member("reasoning", Str("ok")), Member("break_suggestion", JNull)>>,
     <<Member("break_suggestion", Str("walk")), Member("confidence_score", Num(20))>>,
     <<Member("content_type", Str("neutral")), Member("other", Num(10))>>}

MemberLists ==
    {<<p, a, r>> \o o : p \in PatternChoices, a \in ActionChoices,
                        r \in RiskChoices, o \in OtherChoices}
      \cup {<<p, a, v, b>> : p \in PatternChoices, a \in ActionChoices,
                             v \in ValueChoices, b \in BonusChoices}

HappyMembers ==
    <<Member("user_pattern", Str("Deep Focus/Learning")),
      Member("recommended_action", Str("session_extension")),
      Member("addiction_risk", Num(1)),
      Member("educational_value", Num(9)),
      Member("reasoning", Str("ok"))>>

Leads == {<<>>, <<FENCE, JSONWORD, NL>>, <<FENCE, NL>>, <<WORD, SP, WORD, NL>>, <<SP, NL>>}
Trails == {<<>>, <<NL, FENCE>>, <<NL, FENCE, NL, WORD, SP, WORD>>, <<SP, WORD>>,
           <<NL>>, <<NL, WORD>>, <<SP, SP>>}

Nested ==
    <<LB, Member("user_pattern", Str("Active Socializing")), COMMA,
      Member("recommended_action", Str("gentle_reward")), COMMA,
      KeyOf("meta"), LB, Member("other", Num(10)), RB, RB>>

\* An object with a member per line whose last member is an object.
PrettyNested ==
    <<LB, NL, SP, Member("user_pattern", Str("Active Socializing")), COMMA, NL, SP,
      Member("recommended_action", Str("gentle_reward")), COMMA, NL, SP,
      KeyOf("meta"), LB, NL, SP, Member("other", Num(10)), NL, SP, RB, NL, RB>>

\* A string value with a pair of braces in it, as in "see {docs}", and one
\* with a closing brace only.
BracedReasoning == StringMember("reasoning", Str("see {docs}"), <<LB, WORD, RB>>)
CloseBraceReasoning == StringMember("reasoning", Str("a } b"), <<RB, SP, WORD>>)

\* Flat objects with a brace in a string value, without and with a
\* recommended_action.
BracedTexts ==
    {<<LB, Member("user_pattern", Str("Deep Focus/Learning")), COMMA>> \o r \o <<RB>> \o t :
         r \in {BracedReasoning, CloseBraceReasoning}, t \in {<<>>, <<NL, WORD>>}}
      \cup {<<LB, Member("user_pattern", Str("Deep Focus/Learning")), COMMA,
              Member("recommended_action", Str("session_extension")), COMMA>>
               \o r \o <<RB>> \o t :
                r \in {BracedReasoning, CloseBraceReasoning}, t \in {<<>>, <<NL, WORD>>}}
      \cup {<<LB>> \o BracedReasoning \o <<COMMA, Member("user_pattern", Str("Deep Focus/Learning")), RB>>,
            <<LB, MemberOpen("user_pattern", Str("a {b")), LB, WORD, QUOTE, RB>>,
            <<LB, Member("user_pattern", Str("Deep Focus/Learning")), COMMA,
              MemberOpen("reasoning", Str("see {docs}")), LB, WORD, RB, NL, QUOTE, RB>>}

\* ```json, the object, ``` and a sentence after it.
Fenced(object) == <<FENCE, JSONWORD, NL>> \o object \o <<NL, FENCE, NL, WORD, SP, WORD>>

OddTexts ==
    {<<>>,
     PrettyNested,
     Fenced(PrettyNested),
     Fenced(Nested),
     Compact(<<Member("reasoning", Str("user_pattern"))>>),
     Compact(<<Member("addiction_risk", Num(30))>>),
     Pretty(<<Member("reasoning", Str("ok")), Member("bonus_scrolls", Num(30))>>) \o <<NL, WORD>>, <<WORD, SP, WORD, SP, WORD>>, <<LIT>>, <<SP, NL>>,
     SubSeq(Compact(HappyMembers), 1, 4),
     SubSeq(Compact(HappyMembers), 1, Len(Compact(HappyMembers)) - 1),
     <<LB>> \o Joined(HappyMembers, <<COMMA>>) \o <<COMMA, RB>>,
     <<LB, RB>>,
     <<RB, SP, LB>>,
     Nested,
     Nested \o <<NL, WORD>>,
     <<WORD, SP>> \o Nested \o <<SP, WORD>>,
     <<LB, KeyOf("a"), LB, KeyOf("b"), Compact(HappyMembers)[1], RB, RB, RB>>,
     <<LB, KeyOf("meta"), LB, KeyOf("deep")>> \o Compact(HappyMembers) \o <<RB, RB>>,
     Compact(HappyMembers) \o <<SP>> \o Compact(<<Member("other", Num(10))>>),
     Compact(<<Member("other", Num(10))>>) \o <<NL>> \o Compact(HappyMembers),
     <<WORD, SP, LB, WORD, RB, SP>> \o Compact(HappyMembers) \o <<SP, WORD>>,
     <<LB, KeyOf("user_pattern"), LB, Member("user_pattern", Str("Intentional Leisure")), RB, RB>>,
     <<LB, WORD, Member("user_pattern", Str("Intentional Leisure")), RB>>}

ParserInputs ==
    {Compact(ms) : ms \in MemberLists}
      \cup {l \o Compact(HappyMembers) \o t : l \in Leads, t \in Trails}
      \cup {l \o Pretty(HappyMembers) \o t : l \in Leads, t \in Trails}
      \cup {Pretty(ms) \o t : ms \in {<<p, a>> : p \in PatternChoices, a \in ActionChoices},
                              t \in Trails}
      \cup OddTexts
      \cup BracedTexts

ParseInit ==
    /\ cache = EmptyMap
    /\ now = 0
    /\ opCount = 0
    /\ lastOp = NoOp
    /\ store = <<>>
    /\ lastResp = NoResp
    /\ build \in Builds
    /\ rawText \in ParserInputs
    /\ analysis = Pending
    /\ reqs = <<>>

\* analyzeContent runs to its end on the text the model has answered with.
Analyze ==
    /\ analysis = Pending
    /\ analysis' = analyzeContent(build, rawText)
    /\ UNCHANGED <<now, cacheVars, rateVars, build, rawText, pipeVars>>

ParseNext == Analyze

SpecParse == ParseInit /\ [][ParseNext]_vars

(***************************************************************************)
(* validateRequest.  A value of the request body is its type, its number   *)
(* (for a number or a boolean), its text (for a string) with the length of *)
(* the text and of the trimmed text; ty "absent" marks a missing key.      *)
(***************************************************************************)
RVal(ty, n, s, len, trimLen) == [ty |-> ty, n |-> n, s |-> s, len |-> len, trimLen |-> trimLen]
RNum(n) == RVal("num", n, "", 0, 0)
RStr(s, len, trimLen) == RVal("str", 0, s, len, trimLen)
RAbsent == RVal("absent", 0, "", 0, 0)
RNull == RVal("null", 0, "", 0, 0)
RArr == RVal("arr", 0, "", 0, 0)
RObj == RVal("obj", 0, "", 0, 0)

\* !v
Falsy(v) ==
    \/ v.ty \in {"absent", "null"}
    \/ v.ty \in {"num", "bool"} /\ v.n = 0
    \/ v.ty = "str" /\ v.len = 0

\* typeof v
TypeOf(v) ==
    CASE v.ty = "num" -> "number"
      [] v.ty = "str" -> "string"
      [] v.ty = "bool" -> "boolean"
      [] v.ty = "absent" -> "undefined"
      [] OTHER -> "object"

\* Variant of requiredContextFields that looks for maxScrolls first.
requiredContextFieldsSwapped ==
    <<"maxScrolls", "scrollCount", "domain", "timestamp", "timeOfDay", "scrollTime">>

requiredContextFields ==
    <<"scrollCount", "maxScrolls", "domain", "timestamp", "timeOfDay", "scrollTime">>

\* field in body.context
InContext(ctx, field) == ctx.val.ty = "obj" /\ ctx.fields[field].ty # "absent"

MissingFields(ctx) ==
    {i \in 1..Len(requiredContextFields) : ~InContext(ctx, requiredContextFields[i])}

\* typeof v !== 'string' || v.trim().length === 0
NotNonEmptyString(v) == TypeOf(v) # "string" \/ v.trimLen = 0

MAX_CONTENT == 500000

\* Variant of PositiveNumberFails that lets 0 pass.
NegativeNumberFails(v) == TypeOf(v) # "number" \/ v.n < 0

\* typeof v !== 'number' || v <= 0
PositiveNumberFails(v) == TypeOf(v) # "number" \/ v.n <= 0

Next_ == "next"

\* validateRequest on a request to /api/analyze: the message of the 400
\* response it sends, or Next_ when it calls next().
validateRequest(body) ==
    LET ctx == body.context
        f == ctx.fields
    IN  IF Falsy(body.content) THEN "Missing required field: content"
        ELSE IF TypeOf(body.content) # "string" THEN "Field \"content\" must be a string"
        ELSE IF body.content.trimLen = 0 THEN "Field \"content\" cannot be empty"
        ELSE IF Falsy(ctx.val) THEN "Missing required field: context"
        ELSE IF TypeOf(ctx.val) # "object" THEN "Field \"context\" must be an object"
        ELSE IF MissingFields(ctx) # {}
        THEN "Missing required context field: "
                \o requiredContextFields[SetMin(MissingFields(ctx))]
        ELSE IF NegativeNumberFails(f.scrollCount)
        THEN "Field \"context.scrollCount\" must be a non-negative number"
        ELSE IF PositiveNumberFails(f.maxScrolls)
        THEN "Field \"context.maxScrolls\" must be a positive number"
        ELSE IF NotNonEmptyString(f.domain)
        THEN "Field \"context.domain\" must be a non-empty string"
        ELSE IF PositiveNumberFails(f.timestamp)
        THEN "Field \"context.timestamp\" must be a positive number"
        ELSE IF NotNonEmptyString(f.timeOfDay)
        THEN "Field \"context.timeOfDay\" must be a non-empty string"
        ELSE IF NegativeNumberFails(f.scrollTime)
        THEN "Field \"context.scrollTime\" must be a non-negative number"
        ELSE IF body.content.len > MAX_CONTENT THEN "Content too large. Maximum size is 500KB"
        ELSE Next_

\* The request bodies explored: a valid one and the bodies that differ from
\* it in the content, in the context or in one field of the context.
ValidFields ==
    [scrollCount |-> RNum(12), maxScrolls |-> RNum(30), domain |-> RStr("news.example.com", 16, 16),
     timestamp |-> RNum(1700000000), timeOfDay |-> RStr("evening", 7, 7),
     scrollTime |-> RNum(0)]

ValidContext == [val |-> RObj, fields |-> ValidFields]

ValidBody == [content |-> RStr("article", 7, 7), context |-> ValidContext]

ContentChoices ==
    {RAbsent, RNull, RNum(0), RNum(5), RVal("bool", 1, "", 0, 0), RObj,
     RStr("", 0, 0), RStr("   ", 3, 0),
     RStr("article", 7, 7), RStr("other article", 13, 13),
     RStr("long", MAX_CONTENT, MAX_CONTENT), RStr("too long", MAX_CONTENT + 1, MAX_CONTENT + 1)}

ContextChoices ==
    {[val |-> v, fields |-> ValidFields] :
        v \in {RAbsent, RNull, RNum(0), RNum(3), RStr("ctx", 3, 3), RArr}}

NumberChoices == {RAbsent, RNull, RNum(-1), RNum(0), RNum(5), RStr("5", 1, 1)}
StringChoices == {RAbsent, RNull, RNum(5), RStr("", 0, 0), RStr(" ", 1, 0), RStr("x.org", 5, 5)}

FieldChoices(field) ==
    IF field \in {"domain", "timeOfDay"} THEN StringChoices ELSE NumberChoices

Bodies ==
    {[content |-> c, context |-> ValidContext] : c \in ContentChoices}
      \cup {[content |-> ValidBody.content, context |-> x] : x \in ContextChoices}
      \cup {[content |-> ValidBody.content,
             context |-> [val |-> RObj, fields |-> [ValidFields EXCEPT ![field] = v]]] :
                field \in DOMAIN ValidFields, v \in NumberChoices \cup StringChoices}

(***************************************************************************)
(* generateCacheKey.  A text is the sequence of its UTF-16 code units, as   *)
(* a string of the language is.  A 32-bit word of MD5 is <<hi, lo>>, two   *)
(* halves of 16 bits.                                                      *)
(***************************************************************************)
\* a AND b, bit by bit.
RECURSIVE BitAnd(_, _)
BitAnd(a, b) ==
    IF a = 0 \/ b = 0 THEN 0
    ELSE ((a % 2) * (b % 2)) + (2 * BitAnd(a \div 2, b \div 2))

WAnd(v, w) == <<BitAnd(v[1], w[1]), BitAnd(v[2], w[2])>>
WOr(v, w) == <<v[1] + w[1] - BitAnd(v[1], w[1]), v[2] + w[2] - BitAnd(v[2], w[2])>>
WXor(v, w) ==
    <<v[1] + w[1] - (2 * BitAnd(v[1], w[1])), v[2] + w[2] - (2 * BitAnd(v[2], w[2]))>>
WNot(v) == <<65535 - v[1], 65535 - v[2]>>
\* v + w modulo 2^32
WAdd(v, w) ==
    <<(v[1] + w[1] + ((v[2] + w[2]) \div 65536)) % 65536, (v[2] + w[2]) % 65536>>
\* v rotated left by n bits, 0 < n < 32.
WRotl(v, n) ==
    LET u == IF n >= 16 THEN <<v[2], v[1]>> ELSE v
        m == n % 16
        p == 2 ^ m
        q == 2 ^ (16 - m)
    IN  IF m = 0 THEN u
        ELSE <<((u[1] * p) % 65536) + (u[2] \div q), ((u[2] * p) % 65536) + (u[1] \div q)>>

\* floor(2^32 * abs(sin(i))) for i = 1..64, and the shift of each round.
MD5_K ==
    <<
      <<55146, 42104>>, <<59591, 46934>>, <<9248, 28891>>, <<49597, 52974>>,
      <<62844, 4015>>, <<18311, 50730>>, <<43056, 17939>>, <<64838, 38145>>,
      <<27008, 39128>>, <<35652, 63407>>, <<65535, 23473>>, <<35164, 55230>>,
      <<27536, 4386>>, <<64920, 29075>>, <<42617, 17294>>, <<18868, 2081>>,
      <<63006, 9570>>, <<49216, 45888>>, <<9822, 23121>>, <<59830, 51114>>,
      <<54831, 4189>>, <<580, 5203>>, <<55457, 59009>>, <<59347, 64456>>,
      <<8673, 52710>>, <<49975, 2006>>, <<62677, 3463>>, <<17754, 5357>>,
      <<43491, 59653>>, <<64751, 41976>>, <<26479, 729>>, <<36138, 19594>>,
      <<65530, 14658>>, <<34673, 63105>>, <<28061, 24866>>, <<64997, 14348>>,
      <<42174, 59972>>, <<19422, 53161>>, <<63163, 19296>>, <<48831, 48240>>,
      <<10395, 32454>>, <<60065, 10234>>, <<54511, 12421>>, <<1160, 7429>>,
      <<55764, 53305>>, <<59099, 39397>>, <<8098, 31992>>, <<50348, 22117>>,
      <<62505, 8772>>, <<17194, 65431>>, <<43924, 9127>>, <<64659, 41017>>,
      <<25947, 22979>>, <<36620, 52370>>, <<65519, 62589>>, <<34180, 24017>>,
      <<28584, 32335>>, <<65068, 59104>>, <<41729, 17172>>, <<19976, 4513>>,
      <<63315, 32386>>, <<48442, 62005>>, <<10967, 53947>>, <<60294, 54161>>
    >>
MD5_S ==
    <<7, 12, 17, 22, 7, 12, 17, 22, 7, 12, 17, 22, 7, 12, 17, 22,
      5, 9, 14, 20, 5, 9, 14, 20, 5, 9, 14, 20, 5, 9, 14, 20,
      4, 11, 16, 23, 4, 11, 16, 23, 4, 11, 16, 23, 4, 11, 16, 23,
      6, 10, 15, 21, 6, 10, 15, 21, 6, 10, 15, 21, 6, 10, 15, 21>>
\* The initial state: 0x67452301, 0xefcdab89, 0x98badcfe, 0x10325476.
MD5_INIT == <<<<26437, 8961>>, <<61389, 43913>>, <<39098, 56574>>, <<4146, 21622>>>>

\* The message padded to a multiple of 64 bytes: 0x80, zeros, and the length
\* in bits as 8 bytes, lowest first.
Md5Pad(bytes) ==
    LET n == Len(bytes)
        zeros == (119 - (n % 64)) % 64
        bits == n * 8
    IN  bytes \o <<128>> \o [i \in 1..zeros |-> 0]
          \o <<bits % 256, (bits \div 256) % 256, (bits \div 65536) % 256,
               (bits \div 16777216) % 256, 0, 0, 0, 0>>

\* Word j (from 0) of the block that starts after byte off.
Md5Word(p, off, j) ==
    <<p[off + (4 * j) + 3] + (256 * p[off + (4 * j) + 4]),
      p[off + (4 * j) + 1] + (256 * p[off + (4 * j) + 2])>>

\* Rounds i..63 of one block on the state st of four words <<A, B, C, D>>.
RECURSIVE Md5Rounds(_, _, _, _)
Md5Rounds(i, st, p, off) ==
    IF i = 64 \/ Len(st) # 4 THEN st
    ELSE LET A == st[1]
             B == st[2]
             C == st[3]
             D == st[4]
             F == CASE i < 16 -> WOr(WAnd(B, C), WAnd(WNot(B), D))
                    [] i < 32 -> WOr(WAnd(D, B), WAnd(WNot(D), C))
                    [] i < 48 -> WXor(B, WXor(C, D))
                    [] OTHER -> WXor(C, WOr(B, WNot(D)))
             g == CASE i < 16 -> i
                    [] i < 32 -> ((5 * i) + 1) % 16
                    [] i < 48 -> ((3 * i) + 5) % 16
                    [] OTHER -> (7 * i) % 16
             sum == WAdd(WAdd(F, A), WAdd(MD5_K[i + 1], Md5Word(p, off, g)))
         IN  Md5Rounds(i + 1, <<D, WAdd(B, WRotl(sum, MD5_S[i + 1])), B, C>>, p, off)

\* The blocks from byte off on, folded into the state.
RECURSIVE Md5Blocks(_, _, _)
Md5Blocks(st, p, off) ==
    IF off >= Len(p) \/ Len(st) # 4 THEN st
    ELSE LET r == Md5Rounds(0, st, p, off)
         IN  Md5Blocks(<<WAdd(st[1], r[1]), WAdd(st[2], r[2]),
                         WAdd(st[3], r[3]), WAdd(st[4], r[4])>>, p, off + 64)

HexDigits == <<"0", "1", "2", "3", "4", "5", "6", "7", "8", "9", "a", "b", "c", "d", "e", "f">>
HexByte(b) == HexDigits[(b \div 16) + 1] \o HexDigits[(b % 16) + 1]
\* The 4 bytes of a word, lowest first, in hex.
HexWord(w) ==
    HexByte(w[2] % 256) \o HexByte(w[2] \div 256)
       \o HexByte(w[1] % 256) \o HexByte(w[1] \div 256)

\* crypto.createHash('md5').update(bytes).digest('hex')
md5(bytes) ==
    LET st == Md5Blocks(MD5_INIT, Md5Pad(bytes), 0)
    IN  HexWord(st[1]) \o HexWord(st[2]) \o HexWord(st[3]) \o HexWord(st[4])

\* \s of a regular expression, which is also the white space of trim().
IsSpaceCode(c) ==
    c \in (9..13) \cup {32, 160, 5760} \cup (8192..8202)
            \cup {8232, 8233, 8239, 8287, 12288, 65279}

IsHighSurrogate(c) == c \in 55296..56319
IsLowSurrogate(c) == c \in 56320..57343

\* The UTF-8 bytes of the code point cp.
Utf8OfCodePoint(cp) ==
    CASE cp < 128 -> <<cp>>
      [] cp >= 128 /\ cp < 2048 -> <<192 + (cp \div 64), 128 + (cp % 64)>>
      [] cp >= 2048 /\ cp < 65536 ->
            <<224 + (cp \div 4096), 128 + ((cp \div 64) % 64), 128 + (cp % 64)>>
      [] OTHER ->
            <<240 + (cp \div 262144), 128 + ((cp \div 4096) % 64),
              128 + ((cp \div 64) % 64), 128 + (cp % 64)>>

\* The bytes that the code unit at place i of a text contributes: a
\* surrogate pair is one code point, written at its first unit; a surrogate
\* without its partner is written as U+FFFD.
Utf8Piece(text, i) ==
    LET c == text[i]
    IN  CASE IsHighSurrogate(c) ->
               IF i < Len(text) /\ IsLowSurrogate(text[i + 1])
               THEN Utf8OfCodePoint(65536 + ((c - 55296) * 1024) + (text[i + 1] - 56320))
               ELSE Utf8OfCodePoint(65533)
          [] IsLowSurrogate(c) ->
               IF i > 1 /\ IsHighSurrogate(text[i - 1]) THEN <<>>
               ELSE Utf8OfCodePoint(65533)
          [] OTHER -> Utf8OfCodePoint(c)

\* The UTF-8 bytes of the code units lo..hi of a text.
RECURSIVE Utf8Range(_, _, _)
Utf8Range(text, lo, hi) ==
    IF lo > hi THEN <<>>
    ELSE IF lo = hi THEN Utf8Piece(text, lo)
    ELSE Utf8Range(text, lo, (lo + hi) \div 2) \o Utf8Range(text, ((lo + hi) \div 2) + 1, hi)

\* hash.update(string): the string is hashed as its UTF-8 bytes.
Utf8(text) == Utf8Range(text, 1, Len(text))

\* content.toLowerCase()
\* (A-Z and the capitals of Latin-1; the other codes explored have no case.)
ToLowerCase(text) ==
    [i \in 1..Len(text) |->
        IF text[i] \in (65..90) \cup ((192..222) \ {215}) THEN text[i] + 32 ELSE text[i]]

\* .replace(/\s+/g, ' '): every run of white space becomes one space.
CollapseSpaces(text) ==
    LET starts == SelectSeq([i \in 1..Len(text) |-> i],
                            LAMBDA i : \/ ~IsSpaceCode(text[i])
                                       \/ i = 1
                                       \/ ~IsSpaceCode(text[i - 1]))
    IN  [k \in 1..Len(starts) |->
            IF IsSpaceCode(text[starts[k]]) THEN 32 ELSE text[starts[k]]]

\* .trim()
TrimSpaces(text) ==
    LET inked == {i \in 1..Len(text) : ~IsSpaceCode(text[i])}
    IN  IF inked = {} THEN <<>> ELSE SubSeq(text, SetMin(inked), SetMax(inked))

PREFIX_LENGTH == 500

\* .substring(0, 500)
Prefix(text) == SubSeq(text, 1, IF Len(text) < PREFIX_LENGTH THEN Len(text) ELSE PREFIX_LENGTH)

normalizedContent(content) == Prefix(TrimSpaces(CollapseSpaces(ToLowerCase(content))))

\* generateCacheKey(content, domain): the MD5 of `${normalizedContent}:${domain}`.
generateCacheKey(content, domain) ==
    md5(Utf8(normalizedContent(content) \o <<58>> \o domain))

(***************************************************************************)
(* The analysis endpoint: rateLimiter, validateRequest and the handler of  *)
(* POST /api/analyze, for MaxReqs requests in flight at once.  The chain   *)
(* of middleware up to the await of the model call is synchronous and is   *)
(* one step; the settling of the model call is another.                    *)
(***************************************************************************)
MaxReqs == 2
Reqs == 1..MaxReqs

\* Request paths that the route '/api/analyze' matches: the routing of
\* Express compares paths without regard to case, req.path keeps the case.
Paths == {"/api/analyze", "/API/Analyze"}
LowerCase(path) == IF path = "/API/Analyze" THEN "/api/analyze" ELSE path
RouteMatches(route, path) == LowerCase(path) = route

\* req.path.includes('/api/analyze')
IncludesAnalyze(path) == path = "/api/analyze"

\* validateRequest with its guard on the path (lines 19-21).
validateRequestAt(path, body) ==
    IF ~IncludesAnalyze(path) THEN Next_ ELSE validateRequest(body)

NoReply == <<>>
\* An answer: its status, whether its body is JSON and with which fields, and
\* the values of the fields the model follows.
NoAnswer ==
    [status |-> 0, json |-> FALSE, fields |-> {}, error |-> "", message |-> "",
     retryAfter |-> 0, success |-> FALSE, data |-> EmptyObject]
NewReq ==
    [pc |-> "new", client |-> "none", path |-> "", body |-> ValidBody,
     handlerRan |-> FALSE, modelCalls |-> 0, reply |-> NoReply, resp |-> NoAnswer]
NoReqs == [r \in Reqs |-> NewReq]

\* res.status(429).json({error, retryAfter})
Answer429(retryAfter) ==
    [NoAnswer EXCEPT !.status = 429, !.json = TRUE, !.fields = {"error", "retryAfter"},
                     !.error = "Too many requests", !.retryAfter = retryAfter]
\* res.status(400).json({error, message, timestamp})
Answer400(message) ==
    [NoAnswer EXCEPT !.status = 400, !.json = TRUE,
                     !.fields = {"error", "message", "timestamp"},
                     !.error = "Validation failed", !.message = message]
\* res.json({success: true, data: result, timestamp, requestId})
Answer200(result) ==
    [NoAnswer EXCEPT !.status = 200, !.json = TRUE,
                     !.fields = {"success", "data", "timestamp", "requestId"},
                     !.success = TRUE, !.data = result]
\* errorHandler: res.status(500).send('Something broke!')
Answer500 == [NoAnswer EXCEPT !.status = 500, !.message = "Something broke!"]

\* The answer to the outcome of analyzeContent: res.json, or next(error).
AnswerOf(outcome) ==
    IF outcome.kind = "ok" THEN Answer200(outcome.result) ELSE Answer500

\* context.domain and content.length in the handler throw on undefined and
\* on null.
HandlerThrows(body) ==
    \/ body.context.val.ty \in {"absent", "null"}
    \/ body.content.ty \in {"absent", "null"}

\* content.substring(...) in buildPrompt throws when content is no string.
PromptThrows(body) == body.content.ty # "str"

\* The character codes of the texts of the bodies of the endpoint.
CharCodes(text) ==
    CASE text = "article" -> <<97, 114, 116, 105, 99, 108, 101>>
      [] text = "other article" -> <<111, 116, 104, 101, 114, 32, 97, 114, 116, 105, 99, 108, 101>>
      [] text = "   " -> <<32, 32, 32>>
      [] text = "news.example.com" ->
            <<110, 101, 119, 115, 46, 101, 120, 97, 109, 112, 108, 101, 46, 99, 111, 109>>

\* The key of a request in the cache.
RequestKey(body) ==
    generateCacheKey(CharCodes(body.content.s), CharCodes(body.context.fields.domain.s))

\* The bodies and the replies of the model explored by the endpoint.
PipeBodies ==
    {ValidBody,
     [ValidBody EXCEPT !.content = RStr("other article", 13, 13)],
     [ValidBody EXCEPT !.content = RStr("   ", 3, 0)],
     [ValidBody EXCEPT !.content = RNum(5)],
     [ValidBody EXCEPT !.content = RAbsent],
     [ValidBody EXCEPT !.context = [val |-> RAbsent, fields |-> ValidFields]],
     [ValidBody EXCEPT !.context.fields.maxScrolls = RNum(0)]}

PipeReplies ==
    {CallFailed, Compact(HappyMembers), <<WORD, SP, WORD>>,
     Compact(<<Member("user_pattern", Str("Nonsense")),
               Member("recommended_action", Str("session_extension"))>>)}

\* analyzeContent on each reply explored, computed once.
Outcome == [b \in Builds, reply \in PipeReplies |-> analyzeContent(b, reply)]

\* What analyzeContent gives when buildPrompt throws: the catch block.
AnalyzeThrew(b) == IF b = "rest" THEN Returned(getFallbackResponse) ELSE Thrown

\* The state of a request after the synchronous part of its handling.
Handled(req, lim) ==
    IF lim.status = 429
    THEN [req EXCEPT !.pc = "done", !.resp = Answer429(lim.retryAfter)]
    ELSE IF validateRequestAt(req.path, req.body) # Next_
    THEN [req EXCEPT !.pc = "done",
                     !.resp = Answer400(validateRequestAt(req.path, req.body))]
    ELSE IF HandlerThrows(req.body)
    THEN [req EXCEPT !.pc = "done", !.handlerRan = TRUE, !.resp = Answer500]
    ELSE IF PromptThrows(req.body)
    THEN [req EXCEPT !.pc = "done", !.handlerRan = TRUE,
                     !.resp = AnswerOf(AnalyzeThrew(build))]
    ELSE [req EXCEPT !.pc = "calling", !.handlerRan = TRUE, !.modelCalls = 1]

\* A record of the limiter at its limit, made at time 0.
AtLimit(client) == [c \in {client} |-> [count |-> MAX_REQUESTS, resetTime |-> WINDOW_MS]]

PipeInit ==
    /\ cache = EmptyMap
    /\ now = 0
    /\ opCount = 0
    /\ lastOp = NoOp
    /\ store \in {<<>>, AtLimit("ipA")}
    /\ lastResp = NoResp
    /\ build \in Builds
    /\ rawText = <<>>
    /\ analysis = Pending
    /\ reqs = NoReqs

\* A request arrives and runs up to its answer or to the call of the model;
\* the requests are numbered in the order of their arrival.
Arrive(r, client, path, body) ==
    /\ reqs[r].pc = "new"
    /\ \A q \in 1..(r - 1) : reqs[q].pc # "new"
    /\ RouteMatches("/api/analyze", path)
    /\ store' = Counted(store, client, now)
    /\ lastResp' = LimiterResponse(store, client, now)
    /\ reqs' = [reqs EXCEPT ![r] =
                  Handled([@ EXCEPT !.client = client, !.path = path, !.body = body],
                          LimiterResponse(store, client, now))]
    /\ UNCHANGED <<now, cacheVars, build, parseVars>>

\* The call of the model settles with a text or a failure; analyzeContent
\* and the handler run to their end.
ModelSettles(r, reply) ==
    /\ reqs[r].pc = "calling"
    /\ reqs' = [reqs EXCEPT ![r] =
                  [@ EXCEPT !.pc = "done", !.reply = reply,
                            !.resp = AnswerOf(Outcome[build, reply])]]
    /\ UNCHANGED <<now, cacheVars, rateVars, build, parseVars>>

\* The call of the model never settles: nothing in callGeminiAPI or in
\* analyzeContent ends the await.
ModelHangs(r) ==
    /\ reqs[r].pc = "calling"
    /\ reqs' = [reqs EXCEPT ![r].pc = "hung"]
    /\ UNCHANGED <<now, cacheVars, rateVars, build, parseVars>>

PipeNext ==
    \/ \E r \in Reqs, c \in Clients, p \in Paths, b \in PipeBodies : Arrive(r, c, p, b)
    \/ \E r \in Reqs, reply \in PipeReplies : ModelSettles(r, reply)
    \/ \E r \in Reqs : ModelHangs(r)

SpecPipe == PipeInit /\ [][PipeNext]_vars

\* The endpoint with the scheduling of the event loop: a request that has
\* arrived is handled, and a call of the model that is still open either
\* settles or is one that never does.
SpecPipeFair ==
    /\ SpecPipe
    /\ \A r \in Reqs : WF_vars(\E reply \in PipeReplies : ModelSettles(r, reply))

(***************************************************************************)
(* GET /ready: the handler awaits testConnection and answers 200 or 503.   *)
(* reqs holds the probes.                                                  *)
(***************************************************************************)
\* The texts the model answers a probe with, CallFailed for a call that
\* fails, the empty text included.
ReadyReplies == PipeReplies \cup {<<>>}

\* testConnection once the call of the model has settled.  Build "rest"
\* awaits analyzeContent and returns true unless it throws; build "sdk"
\* calls the model itself and returns whether the text is not empty, false
\* when the call throws.
testConnection(b, reply) ==
    IF b = "rest" THEN analyzeContent(b, reply).kind = "ok"
    ELSE reply # CallFailed /\ Len(reply) > 0

\* res.status(isReady ? 200 : 503).json({ready: isReady, ...})
ReadyAnswer(isReady) == [status |-> IF isReady THEN 200 ELSE 503, ready |-> isReady]

NewProbe == [pc |-> "new", reply |-> <<>>, resp |-> [status |-> 0, ready |-> FALSE]]

ReadyInit ==
    /\ cache = EmptyMap
    /\ now = 0
    /\ opCount = 0
    /\ lastOp = NoOp
    /\ store = <<>>
    /\ lastResp = NoResp
    /\ build \in Builds
    /\ rawText = <<>>
    /\ analysis = Pending
    /\ reqs = [r \in Reqs |-> NewProbe]

\* A probe arrives: the handler calls testConnection, which awaits the call
\* of the model.
ReadyArrive(r) ==
    /\ reqs[r].pc = "new"
    /\ reqs' = [reqs EXCEPT ![r].pc = "calling"]
    /\ UNCHANGED <<now, cacheVars, rateVars, build, parseVars>>

\* The call of the model settles; testConnection and the handler run to
\* their end.
ReadySettles(r, reply) ==
    /\ reqs[r].pc = "calling"
    /\ reqs' = [reqs EXCEPT ![r] =
                  [pc |-> "done", reply |-> reply,
                   resp |-> ReadyAnswer(testConnection(build, reply))]]
    /\ UNCHANGED <<now, cacheVars, rateVars, build, parseVars>>

\* The call of the model never settles.
ReadyHangs(r) ==
    /\ reqs[r].pc = "calling"
    /\ reqs' = [reqs EXCEPT ![r].pc = "hung"]
    /\ UNCHANGED <<now, cacheVars, rateVars, build, parseVars>>

ReadyNext ==
    \/ \E r \in Reqs : ReadyArrive(r)
    \/ \E r \in Reqs, reply \in ReadyReplies : ReadySettles(r, reply)
    \/ \E r \in Reqs : ReadyHangs(r)

SpecReady == ReadyInit /\ [][ReadyNext]_vars

(***************************************************************************)
(* validateRequest as a function of its request: the path, req.body (an    *)
(* object, or undefined when no body parser has run) and what it does with *)
(* res and next.                                                           *)
(***************************************************************************)
\* What one call of validateRequest did: the status it answered with (0 for
\* none), the message of the answer, how often it called next, and whether
\* its catch block ran.
Outcome400(message) ==
    [status |-> 400, message |-> message, nextCalls |-> 0, faulted |-> FALSE]
OutcomeNext == [status |-> 0, message |-> "", nextCalls |-> 1, faulted |-> FALSE]
NoOutcome == [status |-> 0, message |-> "", nextCalls |-> 0, faulted |-> FALSE]

\* Variant of OutcomeCaught whose catch block answers instead of passing on.
OutcomeCaughtRejects == [status |-> 400, message |-> "", nextCalls |-> 0, faulted |-> TRUE]

\* The catch block (lines 158-165): log, then next().
OutcomeCaught == [status |-> 0, message |-> "", nextCalls |-> 1, faulted |-> TRUE]

\* validateRequest(req, res, next): with req.body undefined, !body.content
\* throws a TypeError inside the try block.
validateOutcome(path, hasBody, body) ==
    IF ~IncludesAnalyze(path) THEN OutcomeNext
    ELSE IF ~hasBody THEN OutcomeCaught
    ELSE IF validateRequest(body) = Next_ THEN OutcomeNext
    ELSE Outcome400(validateRequest(body))

\* The bodies explored: every content with every context that is not an
\* object, or that differs from the valid one in one or two fields.
FieldValues == NumberChoices \cup StringChoices
TwoFieldContexts ==
    {[val |-> RObj, fields |-> [ValidFields EXCEPT ![f1] = v1, ![f2] = v2]] :
        f1 \in DOMAIN ValidFields, f2 \in DOMAIN ValidFields,
        v1 \in FieldValues, v2 \in {RAbsent, RNull, RNum(0), RStr("", 0, 0)}}
ManyBodies ==
    {[content |-> c, context |-> x] :
        c \in ContentChoices, x \in ContextChoices \cup TwoFieldContexts}

NewCheck(path, hasBody, body) ==
    [pc |-> "new", path |-> path, hasBody |-> hasBody, body |-> body, did |-> NoOutcome]

ValidateInit ==
    /\ cache = EmptyMap
    /\ now = 0
    /\ opCount = 0
    /\ lastOp = NoOp
    /\ store = <<>>
    /\ lastResp = NoResp
    /\ build = "rest"
    /\ rawText = <<>>
    /\ analysis = Pending
    /\ reqs \in {<<NewCheck("/api/analyze", TRUE, b)>> : b \in ManyBodies}
                  \cup {<<NewCheck(p, FALSE, ValidBody)>> : p \in Paths}
                  \cup {<<NewCheck("/API/Analyze", TRUE, b)>> : b \in PipeBodies}

\* validateRequest runs on the request.
Validate ==
    /\ reqs[1].pc = "new"
    /\ reqs' = [reqs EXCEPT ![1] =
                  [@ EXCEPT !.pc = "done",
                            !.did = validateOutcome(reqs[1].path, reqs[1].hasBody,
                                                    reqs[1].body)]]
    /\ UNCHANGED <<now, cacheVars, rateVars, build, parseVars>>

ValidateNext == Validate

SpecValidate == ValidateInit /\ [][ValidateNext]_vars

(***************************************************************************)
(* Concurrent callers of the cache and of the rate limiter.  get and       *)
(* rateLimiter contain no await: on the single thread of the event loop    *)
(* each call runs to its end before another callback starts, so a call is  *)
(* one step and the callers interleave call by call.                       *)
(***************************************************************************)
MaxConc == 4
Callers == 1..MaxConc
ConcKeys == {1, 2}
ConcClock == {0, WINDOW_MS, TTL + 1}
NewCaller == [pc |-> "new", call |-> "none", key |-> 0, client |-> "none", at |-> 0]

ConcInit ==
    /\ cache = Prefill(2)
    /\ now = 0
    /\ opCount = 0
    /\ lastOp = NoOp
    /\ store = <<>>
    /\ lastResp = NoResp
    /\ build = "rest"
    /\ rawText = <<>>
    /\ analysis = Pending
    /\ reqs = [t \in Callers |-> NewCaller]

\* Caller t calls cacheService.get(key).
ConcGet(t, key) ==
    /\ reqs[t].pc = "new"
    /\ cache' = CacheAfterGet(cache, key, now)
    /\ reqs' = [reqs EXCEPT ![t] = [@ EXCEPT !.pc = "done", !.call = "get",
                                             !.key = key, !.at = now]]
    /\ UNCHANGED <<now, opCount, lastOp, rateVars, build, parseVars>>

\* The request of caller t passes through rateLimiter.
ConcLimit(t, client) ==
    /\ reqs[t].pc = "new"
    /\ store' = Counted(store, client, now)
    /\ lastResp' = LimiterResponse(store, client, now)
    /\ reqs' = [reqs EXCEPT ![t] = [@ EXCEPT !.pc = "done", !.call = "limit",
                                             !.client = client, !.at = now]]
    /\ UNCHANGED <<now, cacheVars, build, parseVars>>

ConcTick ==
    /\ \E t \in ConcClock : t > now /\ now' = t
    /\ UNCHANGED <<cacheVars, rateVars, build, parseVars, pipeVars>>

ConcNext ==
    \/ \E t \in Callers, k \in ConcKeys : ConcGet(t, k)
    \/ \E t \in Callers, c \in Clients : ConcLimit(t, c)
    \/ ConcTick

SpecConc == ConcInit /\ [][ConcNext]_vars

(***************************************************************************)
(* Two calls of generateCacheKey.                                          *)
(***************************************************************************)
\* n times the code c.
Rep(c, n) == [i \in 1..n |-> c]

\* Contents: variants of one sentence in case and white space, blank
\* contents, contents around the 500th character, and contents whose 500th
\* code unit is the first half of an emoji (U+1F642, U+1F914).
KeyContents ==
    { <<104, 101, 108, 108, 111, 32, 119, 111, 114, 108, 100>>,
      <<72, 101, 108, 108, 111, 32, 32, 87, 111, 114, 108, 100>>,
      <<32, 32, 104, 101, 108, 108, 111, 9, 119, 111, 114, 108, 100, 10>>,
      <<104, 101, 108, 108, 111, 32, 119, 111, 114, 108, 100, 33>>,
      <<72, 201, 76, 76, 79>>,
      <<>>,
      <<32, 160>>,
      <<55357, 56898>>,
      Rep(97, 499),
      Rep(97, 500),
      Rep(97, 500) \o <<98>>,
      Rep(97, 499) \o <<32, 98>>,
      <<32>> \o Rep(65, 500) \o <<120>>,
      Rep(97, 499) \o <<55357, 56898>>,
      Rep(97, 499) \o <<55358, 56596>> }

KeyDomains == {<<101, 120, 97, 109, 112, 108, 101, 46, 99, 111, 109>>, <<69, 120, 97, 109, 112, 108, 101, 46, 99, 111, 109>>}

\* The key of every content and domain explored.
KeyTable == [content \in KeyContents, domain \in KeyDomains |-> generateCacheKey(content, domain)]

NoKey == "none"
NewKeyCall(content, domain) == [pc |-> "new", content |-> content, domain |-> domain, key |-> NoKey]

KeyInit ==
    /\ cache = EmptyMap
    /\ now = 0
    /\ opCount = 0
    /\ lastOp = NoOp
    /\ store = <<>>
    /\ lastResp = NoResp
    /\ build = "rest"
    /\ rawText = <<>>
    /\ analysis = Pending
    /\ reqs \in {<<NewKeyCall(c1, d1), NewKeyCall(c2, d2)>> :
                    <<c1, d1, c2, d2>> \in KeyContents \X KeyDomains \X KeyContents \X KeyDomains}

\* Call i returns its key.
GenerateKey(i) ==
    /\ reqs[i].pc = "new"
    /\ reqs' = [reqs EXCEPT ![i].pc = "done",
                            ![i].key = KeyTable[reqs[i].content, reqs[i].domain]]
    /\ UNCHANGED <<now, cacheVars, rateVars, build, parseVars>>

KeyNext == \E i \in 1..2 : GenerateKey(i)

SpecKey == KeyInit /\ [][KeyNext]_vars

(***************************************************************************)
(* A caller that keeps what get returned.  A result is an object: the      *)
(* cache stores the reference that set was given, the heap holds the       *)
(* content of every object, and reqs records the heap and the values the   *)
(* caller has received.                                                    *)
(***************************************************************************)
Refs == {"objA", "objB"}
ShareKeys == {1, 2}
\* The content of an object: its bonus_scrolls.
Contents == {0, 3, 5}

ShareInit ==
    /\ cache = EmptyMap
    /\ now = 0
    /\ opCount = 0
    /\ lastOp = NoOp
    /\ store = <<>>
    /\ lastResp = NoResp
    /\ build = "rest"
    /\ rawText = <<>>
    /\ analysis = Pending
    /\ reqs \in {[heap |-> h, got |-> <<>>] : h \in [Refs -> {3, 5}]}

\* set(key, result) with the object ref as the result: what the caller
\* received for the key before is no longer the value of the key.
ShareSet(key, ref) ==
    /\ opCount < MaxOps
    /\ cache' = CacheAfterSet(cache, key, ref, now)
    /\ lastOp' = [op |-> "set", key |-> key, ret |-> Null,
                  removed |-> (DOMAIN cache.entry) \ (DOMAIN BeforeInsert(cache, now).entry)]
    /\ opCount' = opCount + 1
    /\ reqs' = [reqs EXCEPT !.got =
                   [i \in 1..Len(reqs.got) |->
                       IF reqs.got[i].key = key
                       THEN [reqs.got[i] EXCEPT !.current = FALSE]
                       ELSE reqs.got[i]]]
    /\ UNCHANGED <<now, rateVars, build, parseVars>>

\* get(key): return entry.result hands the stored reference to the caller,
\* who sees the content the object has at that time.
ShareGet(key) ==
    /\ opCount < MaxOps
    /\ cache' = CacheAfterGet(cache, key, now)
    /\ lastOp' = [op |-> "get", key |-> key, ret |-> GetResult(cache, key, now),
                  removed |-> (DOMAIN cache.entry)
                                 \ (DOMAIN CacheAfterGet(cache, key, now).entry)]
    /\ opCount' = opCount + 1
    /\ reqs' = IF GetResult(cache, key, now) = Null THEN reqs
               ELSE [reqs EXCEPT !.got =
                        Append(@, [key |-> key, ref |-> GetResult(cache, key, now),
                                   seen |-> reqs.heap[GetResult(cache, key, now)],
                                   current |-> TRUE])]
    /\ UNCHANGED <<now, rateVars, build, parseVars>>

\* The caller changes the value it received from its i-th get.
Mutate(i, content) ==
    /\ i \in 1..Len(reqs.got)
    /\ reqs.heap[reqs.got[i].ref] # content
    /\ reqs' = [reqs EXCEPT !.heap[reqs.got[i].ref] = content]
    /\ UNCHANGED <<now, cacheVars, rateVars, build, parseVars>>

ShareNext ==
    \/ \E k \in ShareKeys, ref \in Refs : ShareSet(k, ref)
    \/ \E k \in ShareKeys : ShareGet(k)
    \/ \E i \in 1..MaxOps, content \in Contents : Mutate(i, content)

SpecShare == ShareInit /\ [][ShareNext]_vars

(***************************************************************************)
(* Properties of the cache                                                 *)
(***************************************************************************)
\* A step that is one CacheService call.
CacheCall == opCount' = opCount + 1

\* C1: once a set call has completed, the cache holds at most MAX_SIZE
\* entries (it never holds more at any time).
CacheCapacity == Size(cache) <= MAX_SIZE

\* A set call has just run the reclaim and the cache is within its capacity.
CacheCapacityWitness ==
    /\ lastOp.op = "set"
    /\ lastOp.removed # {}
    /\ Size(cache) = MAX_SIZE - EVICT_COUNT + 1

\* C2: a get of a stored key returns the stored result while the entry's
\* age is at most TTL and keeps the entry; once the age exceeds TTL it
\* returns null and the entry is deleted by that very call.
TtlExpiry ==
    [][(CacheCall /\ lastOp'.op = "get" /\ Has(cache, lastOp'.key)) =>
          LET k == lastOp'.key
              e == cache.entry[k]
          IN  /\ now - e.timestamp <= TTL
                   => (lastOp'.ret = e.result /\ Has(cache', k))
              /\ now - e.timestamp > TTL
                   => (lastOp'.ret = Null /\ ~Has(cache', k))]_vars

\* A get at clock TTL + 1 found an entry expired (inserted at clock 0) and
\* deleted it.
TtlExpiryWitness ==
    /\ lastOp.op = "get"
    /\ lastOp.ret = Null
    /\ lastOp.removed = {lastOp.key}
    /\ now = TTL + 1

\* C3: when set evicts under capacity pressure and no entry is expired,
\* every removed entry has a hitCount at most that of every kept entry.
EvictionPreference ==
    [][(/\ CacheCall
        /\ lastOp'.op = "set"
        /\ Size(cache) >= MAX_SIZE
        /\ \A k \in DOMAIN cache.entry : now - cache.entry[k].timestamp <= TTL) =>
          LET removed == lastOp'.removed
              kept == (DOMAIN cache.entry) \ removed
          IN  /\ removed # {}
              /\ (removed \ {lastOp'.key}) \cap (DOMAIN cache'.entry) = {}
              /\ kept \subseteq DOMAIN cache'.entry
              /\ \A hr \in {cache.entry[k].hitCount : k \in removed} :
                   \A hk \in {cache.entry[k].hitCount : k \in kept} : hr <= hk]_vars

\* A set call has evicted EVICT_COUNT entries while nothing could be expired.
EvictionPreferenceWitness ==
    /\ lastOp.op = "set"
    /\ Cardinality(lastOp.removed) = EVICT_COUNT
    /\ now <= TTL

\* The place of an entry in the order hitCount first, insertion order next:
\* the entry at place i of the Map's order.
UseRank(c, i) == (c.entry[c.order[i]].hitCount * (Size(c) + 1)) + i

\* C20: a set call made while size >= MAX_SIZE deletes every expired entry;
\* only if the entries left are still MAX_SIZE or more does it delete, of
\* these, exactly the 100 with the lowest hitCount, the earlier inserted
\* first among equal hitCounts; then it inserts the new entry.  A set call
\* made while size < MAX_SIZE deletes nothing.  The entries that stay are
\* unchanged.
SetReclaim ==
    [][(CacheCall /\ lastOp'.op = "set") =>
          LET key == lastOp'.key
              removed == lastOp'.removed
              IsExpired(k) == now - cache.entry[k].timestamp > TTL
              IsEvicted(k) == k \in removed /\ ~IsExpired(k)
              IsKept(k) == k \notin removed
          IN  /\ Size(cache) < MAX_SIZE => removed = {}
              /\ Size(cache) >= MAX_SIZE =>
                    /\ \A k \in DOMAIN cache.entry : IsExpired(k) => k \in removed
                    /\ \A evictedRanks \in {{UseRank(cache, i) :
                              i \in {j \in 1..Size(cache) : IsEvicted(cache.order[j])}}} :
                          IF Cardinality({k \in DOMAIN cache.entry : ~IsExpired(k)}) >= MAX_SIZE
                          THEN /\ Cardinality(evictedRanks) = 100
                               /\ \A top \in {SetMax(evictedRanks)} :
                                     \A i \in 1..Size(cache) :
                                        IsKept(cache.order[i]) => UseRank(cache, i) > top
                          ELSE evictedRanks = {}
              /\ DOMAIN cache'.entry = ((DOMAIN cache.entry) \ removed) \cup {key}
              /\ cache'.entry[key].hitCount = 0
              /\ cache'.entry[key].timestamp = now
              /\ \A k \in (DOMAIN cache'.entry) \ {key} : cache'.entry[k] = cache.entry[k]]_vars

\* A set call on a full cache has deleted the MAX_SIZE - 1 expired entries
\* and nothing else: the one live entry and the new one are the cache.
SetReclaimWitness ==
    /\ lastOp.op = "set"
    /\ now > TTL
    /\ Cardinality(lastOp.removed) = MAX_SIZE - 1
    /\ Size(cache) = 2

\* C21: the hitCount of an entry is the number of get calls that returned
\* its result since the last set of its key: a set call stores a whole fresh
\* entry with hitCount 0 and timestamp now, also over an entry of the same
\* key; a get call that returns a result adds exactly 1 to the entry it
\* read; no call changes the hitCount of another entry.
HitCountCounts ==
    [][CacheCall =>
          /\ lastOp'.op = "set" =>
                \E result \in Results :
                    cache'.entry[lastOp'.key]
                        = [result |-> result, timestamp |-> now, hitCount |-> 0]
          /\ (lastOp'.op = "get" /\ lastOp'.ret # Null) =>
                /\ Has(cache, lastOp'.key) /\ Has(cache', lastOp'.key)
                /\ cache'.entry[lastOp'.key].hitCount
                      = cache.entry[lastOp'.key].hitCount + 1
          /\ (lastOp'.op = "get" /\ lastOp'.ret = Null) =>
                ~Has(cache', lastOp'.key)
          /\ \A k \in (DOMAIN cache'.entry) \ {lastOp'.key} :
                cache'.entry[k].hitCount = cache.entry[k].hitCount]_vars

\* A set call has replaced the first entry of the prefilled cache, which had
\* been read once: the entry is in its old place with hitCount 0.
HitCountCountsWitness ==
    /\ lastOp.op = "set"
    /\ lastOp.key = 1
    /\ Size(cache) = MAX_SIZE - 1
    /\ cache.order[1] = 1
    /\ cache.entry[1].hitCount = 0
    /\ Prefill(MAX_SIZE - 1).entry[1].hitCount = 1

\* C29: a get call never extends the lifetime of an entry: it leaves the
\* timestamp and the result of every entry it keeps unchanged, and it
\* returns a result only for an entry whose age since its set is at most
\* TTL, however often the entry has been read.
GetKeepsLifetime ==
    [][(CacheCall /\ lastOp'.op = "get") =>
          /\ \A k \in DOMAIN cache'.entry :
                /\ Has(cache, k)
                /\ cache'.entry[k].timestamp = cache.entry[k].timestamp
                /\ cache'.entry[k].result = cache.entry[k].result
          /\ lastOp'.ret # Null =>
                /\ lastOp'.ret = cache.entry[lastOp'.key].result
                /\ now - cache'.entry[lastOp'.key].timestamp <= TTL]_vars

\* A get at a later clock has returned the result of an entry set at clock
\* 0 and read before: the entry still carries the timestamp of its set.
GetKeepsLifetimeWitness ==
    /\ lastOp.op = "get"
    /\ lastOp.ret # Null
    /\ now > 0
    /\ Has(cache, lastOp.key)
    /\ cache.entry[lastOp.key].timestamp = 0
    /\ cache.entry[lastOp.key].hitCount >= 2

\* C22: get returns a copy of the stored result: whatever the caller does
\* to a value it received, every get of a key since the last set of the key
\* returns the same content.
GetReturnsCopy ==
    \A i \in 1..Len(reqs.got) : \A j \in 1..Len(reqs.got) :
        (reqs.got[i].key = reqs.got[j].key /\ reqs.got[i].current /\ reqs.got[j].current)
            => reqs.got[i].seen = reqs.got[j].seen

(***************************************************************************)
(* Properties of the rate limiter                                          *)
(***************************************************************************)
\* A step that is one rateLimiter call (it always changes the store).
LimiterCall == store' # store

\* C4: within one window the first MAX_REQUESTS requests of a client are
\* passed on, and every later one is answered 429 with
\* retryAfter = ceil((resetTime - now) / 1000), a positive integer.
RateLimitWindow ==
    [][LimiterCall =>
          LET c == lastResp'.client
              inWindow == c \in DOMAIN store /\ store[c].resetTime > now
              nth == IF inWindow THEN store[c].count + 1 ELSE 1
              reset == IF inWindow THEN store[c].resetTime ELSE now + WINDOW_MS
          IN  /\ store'[c].count = nth
              /\ store'[c].resetTime = reset
              /\ nth <= 100 => lastResp'.status = 0
              /\ nth > 100 =>
                   /\ lastResp'.status = 429
                   /\ lastResp'.retryAfter > 0
                   /\ (lastResp'.retryAfter - 1) * 1000 < reset - now
                   /\ reset - now <= lastResp'.retryAfter * 1000]_vars

\* The 101st request of a window has just been refused.
RateLimitWindowWitness ==
    /\ lastResp.status = 429
    /\ lastResp.client \in DOMAIN store
    /\ store[lastResp.client].count = MAX_REQUESTS + 1

\* C23: on every rateLimiter call every record, of any client, whose
\* resetTime <= now is removed before the request is counted: no expired
\* record is left after the call, the live records of the other clients are
\* untouched, and a client whose window has expired is counted as new, with
\* count = 1 and resetTime = now + 15 minutes, and is passed on.
ExpiredPurged ==
    [][LimiterCall =>
          LET c == lastResp'.client
          IN  /\ \A d \in DOMAIN store' : store'[d].resetTime > now
              /\ \A d \in (DOMAIN store) \ {c} :
                    IF store[d].resetTime <= now
                    THEN d \notin DOMAIN store'
                    ELSE d \in DOMAIN store' /\ store'[d] = store[d]
              /\ (c \in DOMAIN store /\ store[c].resetTime <= now) =>
                    /\ store'[c] = [count |-> 1, resetTime |-> now + (15 * 60 * 1000)]
                    /\ lastResp'.status = 0]_vars

\* The call of a client found its own record and the record of another
\* client expired in the store; it has left one record only, the new record
\* of its client, and the request was passed on.
ExpiredPurgedWitness ==
    /\ lastResp.client \in reqs.expired
    /\ reqs.expired # {lastResp.client}
    /\ lastResp.status = 0
    /\ DOMAIN store = {lastResp.client}
    /\ store[lastResp.client] = [count |-> 1, resetTime |-> now + WINDOW_MS]

\* C24: the limiter counts in fixed windows: the resetTime of a record is
\* set at the first request of its window, to 15 minutes later, and no
\* later request of the window, passed on or refused, moves it; the first
\* request of a client at or after its resetTime is passed on, whatever its
\* count had reached.
FixedWindow ==
    [][LimiterCall =>
          LET c == lastResp'.client
          IN  /\ (c \in DOMAIN store /\ now < store[c].resetTime) =>
                    store'[c].resetTime = store[c].resetTime
              /\ (c \notin DOMAIN store \/ now >= store[c].resetTime) =>
                    /\ store'[c].resetTime = now + (15 * 60 * 1000)
                    /\ lastResp'.status = 0]_vars

\* The burst at the boundary: a client that was refused at the end of its
\* window has been passed on again, and from BurstFrom to now, at most two
\* milliseconds, more than 100 of its requests have been passed on.
FixedWindowWitness ==
    /\ now - BurstFrom <= 2
    /\ reqs.denied > 0
    /\ reqs.permitted > 100
    /\ lastResp.status = 0

(***************************************************************************)
(* Properties of the analysis: the parser, the endpoint, the callers.      *)
(***************************************************************************)
\* A number of the scale 0 to 10 (numbers are held in tenths).
InScale(v) == v.ty = "num" /\ v.n >= 0 /\ v.n <= 100

\* An AnalysisResult with every field in its declared domain.
ValidResult(res) ==
    /\ res.user_pattern.ty = "str" /\ res.user_pattern.s \in UserPatterns
    /\ InScale(res.addiction_risk)
    /\ InScale(res.educational_value)
    /\ res.recommended_action.ty = "str" /\ res.recommended_action.s \in RecommendedActions
    /\ res.bonus_scrolls.ty = "num" /\ res.bonus_scrolls.n >= 0 /\ res.bonus_scrolls.n % 10 = 0
    /\ res.reasoning.ty = "str" /\ res.reasoning.s # ""
    /\ res.break_suggestion.ty \in {"str", "null", "undef"}

\* C5: whatever text the model has answered with, analyzeContent of
\* gemini.service.ts returns (it does not throw) and what it returns is an
\* AnalysisResult with every field in its declared domain.
ParserTotality ==
    (build = "rest" /\ analysis.kind # "pending")
        => (analysis.kind = "ok" /\ ValidResult(analysis.result))

\* C6: a request whose call of the model has failed is answered with the
\* fallback result, not with an error, and the cache holds nothing under the
\* key of the request.
FailureFallsBack ==
    \A r \in Reqs :
        (reqs[r].pc = "done" /\ reqs[r].reply = CallFailed)
            => /\ reqs[r].resp = Answer200(getFallbackResponse)
               /\ ~Has(cache, RequestKey(reqs[r].body))

\* C7: a request is answered either from the cache without a call of the
\* model, or after one call of the model; and once a request has been
\* answered with a fresh result of the model, the cache holds that result
\* under the key of the request.
PipelineOrder ==
    \A r \in Reqs :
        (reqs[r].pc = "done" /\ reqs[r].resp.status = 200 /\ reqs[r].modelCalls = 1
           /\ reqs[r].resp.data # getFallbackResponse)
            => /\ Has(cache, RequestKey(reqs[r].body))
               /\ cache.entry[RequestKey(reqs[r].body)].result = reqs[r].resp.data

\* A body that breaks one of the hard rules of the validation.
ViolatesHardRule(body) ==
    LET f == body.context.fields
        IsNumber(v) == v.ty = "num"
        IsText(v) == v.ty = "str" /\ v.trimLen > 0
    IN  \/ ~IsText(body.content)
        \/ body.content.len > 500000
        \/ body.context.val.ty # "obj"
        \/ \E name \in DOMAIN f : f[name].ty = "absent"
        \/ ~(IsNumber(f.scrollCount) /\ f.scrollCount.n >= 0)
        \/ ~(IsNumber(f.maxScrolls) /\ f.maxScrolls.n > 0)
        \/ ~IsText(f.domain)
        \/ ~(IsNumber(f.timestamp) /\ f.timestamp.n > 0)
        \/ ~IsText(f.timeOfDay)
        \/ ~(IsNumber(f.scrollTime) /\ f.scrollTime.n >= 0)

\* C8: a request routed to POST /api/analyze that the rate limiter has let
\* through and whose body breaks a hard rule is answered with 400
\* 'Validation failed'; the handler does not run and the model is not called.
ValidationRejects ==
    \A r \in Reqs :
        (reqs[r].pc # "new" /\ reqs[r].resp.status # 429
           /\ ViolatesHardRule(reqs[r].body))
            => /\ reqs[r].pc = "done"
               /\ reqs[r].resp.status = 400
               /\ reqs[r].resp.error = "Validation failed"
               /\ ~reqs[r].handlerRan
               /\ reqs[r].modelCalls = 0

\* The calls of one kind that the callers have made.
GetsOf(key) == {t \in Callers : reqs[t].call = "get" /\ reqs[t].key = key}
RequestsOf(client, since) ==
    {t \in Callers : reqs[t].call = "limit" /\ reqs[t].client = client
                       /\ reqs[t].at >= since}

\* C9: in every interleaving of the callers no update is lost: a live entry
\* has been counted once for each get of its key, and the record of a client
\* has been counted once for each request of the client in its window.
NoLostUpdate ==
    /\ \A k \in DOMAIN cache.entry :
          cache.entry[k].hitCount
              = Prefill(2).entry[k].hitCount + Cardinality(GetsOf(k))
    /\ \A c \in DOMAIN store :
          store[c].count
              = Cardinality(RequestsOf(c, store[c].resetTime - WINDOW_MS))

NoLostUpdateWitness ==
    /\ \E k \in DOMAIN cache.entry : Cardinality(GetsOf(k)) >= 2
    /\ \E c \in DOMAIN store : store[c].count >= 2
    /\ \A t \in Callers : reqs[t].pc = "done"

\* C10: every call of the model that a request waits for comes to an end:
\* the request is answered.
AnalysisCompletes ==
    \A r \in Reqs : (reqs[r].pc = "calling") ~> (reqs[r].pc = "done")

(***************************************************************************)
(* Properties of the repaired result.                                      *)
(***************************************************************************)
\* The reward range of a pattern, in tenths (buildPrompt, REWARD STRATEGY).
RewardRange(pattern) ==
    CASE pattern = "Deep Focus/Learning" -> <<120, 200>>
      [] pattern = "Active Socializing" -> <<80, 150>>
      [] pattern = "Intentional Leisure" -> <<60, 120>>
      [] pattern = "Casual Browsing/Catch-up" -> <<30, 80>>
      [] pattern = "Passive Consumption/Doomscrolling" -> <<10, 50>>
      [] pattern = "Anxiety-Driven Information Seeking" -> <<20, 60>>

\* C11: in every result returned for a request classified into one of the
\* six patterns, bonus_scrolls lies within the inclusive reward range of the
\* pattern, whatever the model proposed or omitted.
BonusInRange ==
    (build = "rest" /\ analysis.kind = "ok"
       /\ analysis.result.user_pattern.ty = "str"
       /\ analysis.result.user_pattern.s \in UserPatterns)
        => /\ analysis.result.bonus_scrolls.ty = "num"
           /\ analysis.result.bonus_scrolls.n
                 >= RewardRange(analysis.result.user_pattern.s)[1]
           /\ analysis.result.bonus_scrolls.n
                 <= RewardRange(analysis.result.user_pattern.s)[2]

\* C12: in every result the parser returns, user_pattern is one of the six
\* variants and recommended_action is one of the five variants.
VariantsRepaired ==
    (build = "rest" /\ analysis.kind = "ok")
        => /\ analysis.result.user_pattern.ty = "str"
           /\ analysis.result.user_pattern.s \in UserPatterns
           /\ analysis.result.recommended_action.ty = "str"
           /\ analysis.result.recommended_action.s \in RecommendedActions

\* The values the text proposes for a field.
Proposed(text, field) ==
    {text[i].v : i \in {j \in 1..Len(text) : text[j].t = "f" /\ text[j].k = field}}

\* The upper end of the scale of a numeric field, in tenths.
ScaleTop(field) == IF field = "bonus_scrolls" THEN 200 ELSE 100
ScaledFields == {"addiction_risk", "educational_value", "bonus_scrolls"}

\* C13: when the values decoded for addiction_risk, educational_value or
\* bonus_scrolls are numbers, inside or outside the scale, the field of the
\* result of parseResponse is a number within the scale: 0 to 10 for the
\* first two, 0 to 20 for bonus_scrolls.
FieldClamping ==
    (build = "rest" /\ analysis.kind = "ok")
        => \A field \in ScaledFields :
              (\A v \in Proposed(rawText, field) : v.ty = "num")
                  => /\ analysis.result[field].ty = "num"
                     /\ analysis.result[field].n >= 0
                     /\ analysis.result[field].n <= ScaleTop(field)

FieldClampingWitness ==
    /\ build = "rest" /\ analysis.kind = "ok"
    /\ Proposed(rawText, "addiction_risk") = {Num(150)}
    /\ analysis.result.addiction_risk = Num(100)

\* C14: for a text of the model that holds no JSON object the result is the
\* fallback result: pattern 'Casual Browsing/Catch-up', action
\* 'maintain_limit', mid-range risk and value, a break suggestion and a
\* bonus_scrolls that is not zero.
GarbageGivesFallback ==
    (build = "rest" /\ analysis.kind # "pending" /\ Positions(rawText, LB) = {})
        => /\ analysis.kind = "ok"
           /\ analysis.result.user_pattern = Str("Casual Browsing/Catch-up")
           /\ analysis.result.recommended_action = Str("maintain_limit")
           /\ analysis.result.addiction_risk = Num(50)
           /\ analysis.result.educational_value = Num(50)
           /\ analysis.result.break_suggestion.ty = "str"
           /\ analysis.result.break_suggestion.s # ""
           /\ analysis.result.bonus_scrolls.ty = "num"
           /\ analysis.result.bonus_scrolls.n > 0

\* The object the extraction cascade decodes from a text (kind "obj"), and
\* the one the last-resort pattern decodes.
CascadeDecoded(text) == JsonParse(CleanedText(text))
LastResortDecoded(text) ==
    IF SimpleMatch(text) = NoMatch THEN [kind |-> "error", obj |-> EmptyObject]
    ELSE JsonParse(SimpleMatch(text))

\* C25: the Fallback Result is returned whenever no stage of the extraction
\* (the cascade, then the last-resort user_pattern pattern) yields a
\* decodable object, and whenever the object the cascade decodes has
\* neither user_pattern nor recommended_action.
FallbackWhenUndecodable ==
    (/\ build = "rest"
     /\ analysis.kind # "pending"
     /\ \/ CascadeDecoded(rawText).kind # "obj" /\ LastResortDecoded(rawText).kind # "obj"
        \/ /\ CascadeDecoded(rawText).kind = "obj"
           /\ CascadeDecoded(rawText).obj.user_pattern = Undef
           /\ CascadeDecoded(rawText).obj.recommended_action = Undef)
        => analysis = Returned(getFallbackResponse)

\* A text that is one flat object and nothing else.
IsFlatObject(text) ==
    /\ Len(text) >= 2
    /\ Positions(text, LB) = {1}
    /\ Positions(text, RB) = {Len(text)}
    /\ JsonParse(text).kind = "obj"

TextFields == {"reasoning", "break_suggestion", "content_type"}

\* A text that is one object without an object inside, braces in its string
\* values or not.
IsSingleFlatObject(text) ==
    /\ Len(text) >= 2
    /\ text[1] = LB
    /\ text[Len(text)] = RB
    /\ \A i \in 1..Len(text) : text[i].t # "key"
    /\ JsonParse(text).kind = "obj"

\* C26: when the text is a single flat object with a user_pattern and no
\* recommended_action, the result is not the Fallback Result: it has the
\* decoded user_pattern, recommended_action 'maintain_limit', every other
\* decoded text field, and every decoded number, brought into its scale
\* when it lies outside.
PatternAloneRecovered ==
    (/\ build = "rest"
     /\ analysis.kind # "pending"
     /\ IsSingleFlatObject(rawText)
     /\ JsonParse(rawText).obj.user_pattern.ty = "str"
     /\ JsonParse(rawText).obj.recommended_action = Undef)
        => /\ analysis.kind = "ok"
           /\ analysis.result # getFallbackResponse
           /\ analysis.result.user_pattern = JsonParse(rawText).obj.user_pattern
           /\ analysis.result.recommended_action = Str("maintain_limit")
           /\ \A field \in TextFields :
                 JsonParse(rawText).obj[field] # Undef
                     => analysis.result[field] = JsonParse(rawText).obj[field]
           /\ \A field \in ScaledFields :
                 JsonParse(rawText).obj[field].ty = "num"
                     => analysis.result[field]
                           = Clamp(0, ScaleTop(field), JsonParse(rawText).obj[field])

\* C27: field repair leaves a number inside its scale as it is: when the
\* text is a single flat object with a user_pattern, every decoded
\* addiction_risk, educational_value or bonus_scrolls that is a number of
\* its scale, 0 included, is carried by the result unchanged.
InScaleUnchanged ==
    (/\ build = "rest"
     /\ analysis.kind # "pending"
     /\ IsFlatObject(rawText)
     /\ Truthy(JsonParse(rawText).obj.user_pattern))
        => \A field \in ScaledFields :
              (JsonParse(rawText).obj[field].ty = "num"
                 /\ JsonParse(rawText).obj[field].n >= 0
                 /\ JsonParse(rawText).obj[field].n <= ScaleTop(field))
                  => /\ analysis.kind = "ok"
                     /\ analysis.result[field] = JsonParse(rawText).obj[field]

\* The objects that the fenced texts hold.
FencedObjects == {Compact(HappyMembers), Pretty(HappyMembers), Nested, PrettyNested}

\* C28: the text handed to the decoder is the span of the first of the four
\* patterns, in their order, that matches, cut after its last closing
\* brace; and for a text that is a ```json fenced object followed by the
\* closing fence and a sentence, the result is that object.
CascadeExtracts ==
    (build = "rest" /\ analysis.kind # "pending")
        => /\ \A p \in 1..4 :
                 LET spans == PatternMatches(StripFences(Trim(rawText)))
                 IN  (spans[p] # NoMatch /\ \A q \in 1..(p - 1) : spans[q] = NoMatch)
                        => CleanedText(rawText) = CutAfterLastBrace(spans[p])
           /\ \A object \in FencedObjects :
                 rawText = Fenced(object)
                    => /\ analysis.kind = "ok"
                       /\ analysis.result.user_pattern = JsonParse(object).obj.user_pattern
                       /\ analysis.result.recommended_action
                             = JsonParse(object).obj.recommended_action

(***************************************************************************)
(* Properties of the answers of the endpoint.                              *)
(***************************************************************************)
\* C15: every request to POST /api/analyze that passes the validation is
\* answered with a success response that carries a result; no fault inside
\* reaches the caller as an error response.
ValidAlwaysSucceeds ==
    \A r \in Reqs :
        (reqs[r].pc = "done" /\ reqs[r].resp.status # 429
           /\ ~ViolatesHardRule(reqs[r].body))
            => /\ reqs[r].resp.status = 200
               /\ reqs[r].resp.success
               /\ reqs[r].resp.data # EmptyObject

\* C19: every error response is a JSON object with the fields error,
\* message and timestamp.
ErrorShape ==
    \A r \in Reqs :
        (reqs[r].pc = "done" /\ reqs[r].resp.status >= 400)
            => /\ reqs[r].resp.json
               /\ {"error", "message", "timestamp"} \subseteq reqs[r].resp.fields

(***************************************************************************)
(* Properties of validateRequest.                                          *)
(***************************************************************************)
\* The hard rules, numbered: 1-3 content present, a string, not blank; 4-5
\* context present, an object; 6-11 the six fields present; 12-17 the six
\* fields well-formed; 18 content of at most 500,000 characters.  A value
\* counts as present when it is truthy.
RuleFields == <<"scrollCount", "maxScrolls", "domain", "timestamp", "timeOfDay", "scrollTime">>

IsPresent(v) ==
    ~ \/ v.ty \in {"absent", "null"}
      \/ v.ty \in {"num", "bool"} /\ v.n = 0
      \/ v.ty = "str" /\ v.len = 0

FieldRuleBroken(name, v) ==
    CASE name \in {"scrollCount", "scrollTime"} -> ~(v.ty = "num" /\ v.n >= 0)
      [] name \in {"maxScrolls", "timestamp"} -> ~(v.ty = "num" /\ v.n > 0)
      [] OTHER -> ~(v.ty = "str" /\ v.trimLen > 0)

Broken(rule, body) ==
    CASE rule = 1 -> ~IsPresent(body.content)
      [] rule = 2 -> body.content.ty # "str"
      [] rule = 3 -> body.content.ty = "str" /\ body.content.trimLen = 0
      [] rule = 4 -> ~IsPresent(body.context.val)
      [] rule = 5 -> body.context.val.ty \notin {"obj", "arr", "null"}
      [] rule \in 6..11 ->
            \/ body.context.val.ty # "obj"
            \/ body.context.fields[RuleFields[rule - 5]].ty = "absent"
      [] rule \in 12..17 ->
            FieldRuleBroken(RuleFields[rule - 11], body.context.fields[RuleFields[rule - 11]])
      [] rule = 18 -> body.content.len > 500000

RuleMessage(rule) ==
    CASE rule = 1 -> "Missing required field: content"
      [] rule = 2 -> "Field \"content\" must be a string"
      [] rule = 3 -> "Field \"content\" cannot be empty"
      [] rule = 4 -> "Missing required field: context"
      [] rule = 5 -> "Field \"context\" must be an object"
      [] rule \in 6..11 -> "Missing required context field: " \o RuleFields[rule - 5]
      [] rule = 12 -> "Field \"context.scrollCount\" must be a non-negative number"
      [] rule = 13 -> "Field \"context.maxScrolls\" must be a positive number"
      [] rule = 14 -> "Field \"context.domain\" must be a non-empty string"
      [] rule = 15 -> "Field \"context.timestamp\" must be a positive number"
      [] rule = 16 -> "Field \"context.timeOfDay\" must be a non-empty string"
      [] rule = 17 -> "Field \"context.scrollTime\" must be a non-negative number"
      [] rule = 18 -> "Content too large. Maximum size is 500KB"

\* The rules of a body that are broken, as places in the order.
BrokenPlaces(order, body) == {j \in 1..Len(order) : Broken(order[j], body)}

\* The validator answers with the message of the first broken rule of the
\* order, and passes the request on when no rule is broken.
ReportsFirst(order) ==
    (reqs[1].pc = "done" /\ reqs[1].hasBody /\ reqs[1].path = "/api/analyze")
        => IF BrokenPlaces(order, reqs[1].body) = {}
           THEN reqs[1].did.status = 0 /\ reqs[1].did.nextCalls = 1
           ELSE /\ reqs[1].did.status = 400
                /\ reqs[1].did.nextCalls = 0
                /\ reqs[1].did.message
                      = RuleMessage(order[SetMin(BrokenPlaces(order, reqs[1].body))])

\* C16 as stated: the first broken rule is reported in the order content
\* present, a string, not blank, of at most 500,000 characters, then context
\* present, an object, the six fields present, then scrollCount, maxScrolls,
\* domain, timestamp, timeOfDay, scrollTime.
ValidationOrderStated ==
    ReportsFirst(<<1, 2, 3, 18, 4, 5, 6, 7, 8, 9, 10, 11, 12, 13, 14, 15, 16, 17>>)

\* C16 as amended: the first broken rule is reported in the order content
\* present, a string, not blank, then context present, an object, the six
\* fields present, then scrollCount, maxScrolls, domain, timestamp,
\* timeOfDay, scrollTime, and last content of at most 500,000 characters.
ValidationOrder ==
    ReportsFirst(<<1, 2, 3, 4, 5, 6, 7, 8, 9, 10, 11, 12, 13, 14, 15, 16, 17, 18>>)

ValidationOrderWitness ==
    /\ reqs[1].pc = "done" /\ reqs[1].hasBody /\ reqs[1].path = "/api/analyze"
    /\ Broken(18, reqs[1].body)
    /\ Broken(6, reqs[1].body) /\ Broken(7, reqs[1].body)
    /\ reqs[1].did.message = "Missing required context field: scrollCount"

\* C17: when the validator faults while it checks a request, it answers
\* nothing and passes the request on exactly once.
FaultPassesOn ==
    (reqs[1].pc = "done" /\ reqs[1].did.faulted)
        => reqs[1].did.status = 0 /\ reqs[1].did.nextCalls = 1

FaultPassesOnWitness ==
    /\ reqs[1].pc = "done" /\ ~reqs[1].hasBody /\ reqs[1].path = "/api/analyze"
    /\ reqs[1].did.faulted

(***************************************************************************)
(* Properties of generateCacheKey.                                         *)
(***************************************************************************)
\* The normalized prefix of a content: its words (the runs of code units
\* that are not white space) joined by single spaces, in lower case, cut
\* after 500 code units.
NormalPrefix(content) ==
    LET lower == ToLowerCase(content)
        inked == {i \in 1..Len(lower) : ~IsSpaceCode(lower[i])}
        last == IF inked = {} THEN 0 ELSE SetMax(inked)
        places == SelectSeq([i \in 1..Len(lower) |-> i],
                            LAMBDA i : \/ i \in inked
                                       \/ i > 1 /\ i < last /\ (i - 1) \in inked)
        joined == [k \in 1..Len(places) |->
                      IF places[k] \in inked THEN lower[places[k]] ELSE 32]
    IN  IF Len(joined) <= 500 THEN joined ELSE SubSeq(joined, 1, 500)

\* C18: two calls of generateCacheKey with equal normalized prefixes and
\* equal domains return the same key, and two calls with the same domain
\* whose normalized prefixes differ return different keys.
KeyDependsOnPrefix ==
    (reqs[1].pc = "done" /\ reqs[2].pc = "done" /\ reqs[1].domain = reqs[2].domain)
        => (reqs[1].key = reqs[2].key
              <=> NormalPrefix(reqs[1].content) = NormalPrefix(reqs[2].content))

(***************************************************************************)
(* Properties of the readiness probe.                                      *)
(***************************************************************************)
\* C30: a probe whose call of the model has failed is answered 503 with
\* ready = false, and a probe is answered ready = true only when the model
\* has answered.
ModelDownNotReady ==
    \A r \in Reqs :
        reqs[r].pc = "done"
            => /\ reqs[r].reply = CallFailed
                    => (reqs[r].resp.status = 503 /\ ~reqs[r].resp.ready)
               /\ reqs[r].resp.ready => reqs[r].reply # CallFailed

====
